---- MODULE Spec2Model ----
(***************************************************************************)
(* The bytecode virtual machine of src/RockPaperScissors.cpp ("Virtual     *)
(* Machine.cpp", lines 2350-3768): tagged Values, heap Objects owned by a  *)
(* mark-and-sweep GarbageCollector, the Chunk container, the Assembler and *)
(* the VM's fetch-decode-execute loop.                                     *)
(*                                                                         *)
(* A VM is a state machine.  The host calls execute(chunk); the loop of    *)
(* VM::execute is followed one iteration at a time (pc is the position in  *)
(* execute), so that the collection that runs between two instructions is  *)
(* a state of its own.                                                     *)
(***************************************************************************)
EXTENDS Integers, Sequences, FiniteSets, TLC

\* ------------------------------------------------------------------ bounds

\* Number of execute invocations the host makes on one VM.
MaxRuns == 2
\* Integer constants of the arithmetic programs range over -MaxInt..MaxInt.
MaxInt == 4
\* Object identities (addresses) the allocator can hand out.
MaxObjects == 32
\* Instructions that set the stack up before a probed instruction.
MaxSetup == 2
\* Arrays a collection program keeps referenced.
MaxKept == 1
\* The most calls the host makes on an Assembler and its Chunk, resolve()
\* not counted.
MaxCalls == 3
\* The stack length at which a chunk that loops for ever is left alone.
MaxStack == 9

\* ------------------------------------------------------- program constants

\* VM::VM: globals.resize(256)
GlobalsSize == 256
\* GarbageCollector::threshold
threshold == 8
\* GarbageCollector::nextGC, as initialised
InitialNextGC == 8

\* ------------------------------------------------------------ Value system

\* A Value is a tag and the payload of the union `as`.  A boolean payload is
\* 0 or 1, a double payload is written in hundredths (150 is 1.50), an object
\* payload is the identity of the Object pointed to, 0 being nullptr.
Value_Nil == [type |-> "NIL", as |-> 0]

Value_Bool(b) == [type |-> "BOOLEAN", as |-> IF b THEN 1 ELSE 0]

Value_Int(i) == [type |-> "INTEGER", as |-> i]

Value_Double(d) == [type |-> "DOUBLE", as |-> d]

Value_Obj(o) == [type |-> "OBJECT", as |-> o]

nullptr == 0

\* isTruthy that takes every OBJECT Value for truthy, the null pointer too.
isTruthy_NullIsTruthy(v) ==
    CASE v.type = "NIL" -> FALSE
      [] v.type = "BOOLEAN" -> v.as = 1
      [] v.type = "INTEGER" -> v.as # 0
      [] v.type = "DOUBLE" -> v.as # 0
      [] v.type = "OBJECT" -> TRUE
      [] OTHER -> FALSE

isTruthy(v) ==
    CASE v.type = "NIL" -> FALSE
      [] v.type = "BOOLEAN" -> v.as = 1
      [] v.type = "INTEGER" -> v.as # 0
      [] v.type = "DOUBLE" -> v.as # 0
      [] v.type = "OBJECT" -> v.as # nullptr
      [] OTHER -> FALSE

Digit(d) ==
    CASE d = 0 -> "0" [] d = 1 -> "1" [] d = 2 -> "2" [] d = 3 -> "3"
      [] d = 4 -> "4" [] d = 5 -> "5" [] d = 6 -> "6" [] d = 7 -> "7"
      [] d = 8 -> "8" [] d = 9 -> "9"

RECURSIVE Decimal(_)
Decimal(n) == IF n < 10 THEN Digit(n) ELSE Decimal(n \div 10) \o Digit(n % 10)

\* std::to_string(int64_t)
to_string(i) == IF i < 0 THEN "-" \o Decimal(0 - i) ELSE Decimal(i)

\* std::fixed << std::setprecision(2), of a double given in hundredths
fixed2(d) ==
    LET a == IF d < 0 THEN 0 - d ELSE d
    IN  (IF d < 0 THEN "-" ELSE "") \o Decimal(a \div 100) \o "."
            \o Digit((a % 100) \div 10) \o Digit(a % 10)

\* Value::toString, for a Value whose object pointer (if any) points to the
\* live object `obj`.
toString(v, obj) ==
    CASE v.type = "NIL" -> "nil"
      [] v.type = "BOOLEAN" -> IF v.as = 1 THEN "true" ELSE "false"
      [] v.type = "INTEGER" -> to_string(v.as)
      [] v.type = "DOUBLE" -> fixed2(v.as)
      [] v.type = "OBJECT" -> IF obj.type = "STRING" THEN obj.data ELSE "[Array]"
      [] OTHER -> "unknown"

\* ----------------------------------------------------------------- Objects

\* ArrayObject(size): `size` zeros, unmarked.
ArrayObject(size) ==
    [type |-> "ARRAY", marked |-> FALSE, elements |-> [i \in 1..size |-> 0]]

\* ------------------------------------------------------- Garbage collector

\* The heap maps the identity of every object that has been allocated and not
\* deleted to the object; `objects` is the collector's registry, in order.
\* A pointer that is null or not in the heap (freed) cannot be read.
Live(heap, o) == o \in DOMAIN heap

markObject(heap, o) ==
    IF o = nullptr THEN heap
    ELSE IF ~Live(heap, o) THEN heap
    ELSE IF heap[o].marked THEN heap
    ELSE [heap EXCEPT ![o].marked = TRUE]

markValue(heap, value) ==
    IF value.type = "OBJECT" /\ value.as # nullptr
    THEN markObject(heap, value.as)
    ELSE heap

\* for (const auto& value : values) markValue(value);
\* markValue only ever sets a flag, and which flag depends on the Value alone,
\* so after the loop an object is marked iff it was marked before or the
\* markValue of some element marks it.
markAll(heap, values) ==
    [o \in DOMAIN heap |->
        IF \E i \in DOMAIN values : markValue(heap, values[i])[o].marked
        THEN [heap[o] EXCEPT !.marked = TRUE]
        ELSE heap[o]]

Without(heap, o) == [p \in DOMAIN heap \ {o} |-> heap[p]]

\* The sweep loop from position i of the registry on.
RECURSIVE sweepFrom(_, _, _)
sweepFrom(objects, heap, i) ==
    IF i > Len(objects) THEN [objects |-> objects, heap |-> heap]
    ELSE IF ~heap[objects[i]].marked
         THEN sweepFrom(SubSeq(objects, 1, i - 1) \o SubSeq(objects, i + 1, Len(objects)),
                        Without(heap, objects[i]), i)
         ELSE sweepFrom(objects, [heap EXCEPT ![objects[i]].marked = FALSE], i + 1)

\* The sweep loop with `++it` also after an erase: the object that follows
\* an erased one is skipped.
RECURSIVE sweepFrom_SkipsAfterErase(_, _, _)
sweepFrom_SkipsAfterErase(objects, heap, i) ==
    IF i > Len(objects) THEN [objects |-> objects, heap |-> heap]
    ELSE IF ~heap[objects[i]].marked
         THEN sweepFrom_SkipsAfterErase(
                  SubSeq(objects, 1, i - 1) \o SubSeq(objects, i + 1, Len(objects)),
                  Without(heap, objects[i]), i + 1)
         ELSE sweepFrom_SkipsAfterErase(
                  objects, [heap EXCEPT ![objects[i]].marked = FALSE], i + 1)

sweep_SkipsAfterErase(objects, heap) == sweepFrom_SkipsAfterErase(objects, heap, 1)

\* The sweep loop without `(*it)->marked = false` for the objects it keeps.
RECURSIVE sweepFrom_KeepsMarks(_, _, _)
sweepFrom_KeepsMarks(objects, heap, i) ==
    IF i > Len(objects) THEN [objects |-> objects, heap |-> heap]
    ELSE IF ~heap[objects[i]].marked
         THEN sweepFrom_KeepsMarks(
                  SubSeq(objects, 1, i - 1) \o SubSeq(objects, i + 1, Len(objects)),
                  Without(heap, objects[i]), i)
         ELSE sweepFrom_KeepsMarks(objects, heap, i + 1)

sweep_KeepsMarks(objects, heap) == sweepFrom_KeepsMarks(objects, heap, 1)

sweep(objects, heap) == sweepFrom(objects, heap, 1)

\* collect with a mark phase that forgets the global table.
collect_StackOnly(m, stack, globals) ==
    LET marked == markAll(m.heap, stack)
        swept == sweep(m.objects, marked)
        twice == Len(swept.objects) * 2
    IN  [m EXCEPT !.objects = swept.objects,
                  !.heap = swept.heap,
                  !.nextGC = IF twice < threshold THEN threshold ELSE twice]

\* collect that doubles nextGC instead of taking twice the objects left.
collect_DoublesNextGC(m, stack, globals) ==
    LET marked == markAll(markAll(m.heap, stack), globals)
        swept == sweep(m.objects, marked)
        twice == m.nextGC * 2
    IN  [m EXCEPT !.objects = swept.objects,
                  !.heap = swept.heap,
                  !.nextGC = IF twice < threshold THEN threshold ELSE twice]

\* collect whose sweep hands the surviving arrays back zeroed.
collect_ZeroesSurvivors(m, stack, globals) ==
    LET marked == markAll(markAll(m.heap, stack), globals)
        swept == sweep(m.objects, marked)
        twice == Len(swept.objects) * 2
    IN  [m EXCEPT !.objects = swept.objects,
                  !.heap = [o \in DOMAIN swept.heap |->
                               ArrayObject(Len(swept.heap[o].elements))],
                  !.nextGC = IF twice < threshold THEN threshold ELSE twice]

\* collect that leaves nextGC at twice the objects left, with no floor.
collect_NoFloor(m, stack, globals) ==
    LET marked == markAll(markAll(m.heap, stack), globals)
        swept == sweep(m.objects, marked)
    IN  [m EXCEPT !.objects = swept.objects,
                  !.heap = swept.heap,
                  !.nextGC = Len(swept.objects) * 2]

\* GarbageCollector::collect on the VM state m with the two root vectors.
collect(m, stack, globals) ==
    LET marked == markAll(markAll(m.heap, stack), globals)
        swept == sweep(m.objects, marked)
        twice == Len(swept.objects) * 2
    IN  [m EXCEPT !.objects = swept.objects,
                  !.heap = swept.heap,
                  !.nextGC = IF twice < threshold THEN threshold ELSE twice]

shouldCollect(m) == Len(m.objects) >= m.nextGC

\* The address of a new object: one that no live object has and no Value
\* holds.
Referenced(values) ==
    {values[i].as : i \in {j \in DOMAIN values : values[j].type = "OBJECT"}}

FreeIds(m) ==
    (1..MaxObjects) \ (DOMAIN m.heap \cup Referenced(m.stack) \cup Referenced(m.globals))

NewId(m) == CHOOSE o \in FreeIds(m) : \A p \in FreeIds(m) : o <= p

\* gc.allocate<ArrayObject>(size): the state with the object registered.
allocate(m, o, size) ==
    [m EXCEPT !.heap = (o :> ArrayObject(size)) @@ @,
              !.objects = Append(@, o)]

\* -------------------------------------------------------------- Bytecode

\* Instruction(op, arg = 0)
Instruction(op, arg) == [opcode |-> op, operand |-> arg]

\* The OpCode enumeration.
OpCodes ==
    {"PUSH", "POP", "DUP", "SWAP", "ADD", "SUB", "MUL", "DIV", "MOD", "NEG",
     "EQ", "NE", "LT", "LE", "GT", "GE", "AND", "OR", "NOT", "LOAD", "STORE",
     "LOAD_GLOBAL", "STORE_GLOBAL", "JMP", "JMP_IF_FALSE", "JMP_IF_TRUE",
     "CALL", "RET", "NEW_ARRAY", "ARRAY_GET", "ARRAY_SET", "ARRAY_LEN",
     "PRINT", "HALT", "NOP"}

\* A Chunk: code, constants and the line of each instruction.
EmptyChunk == [code |-> <<>>, constants |-> <<>>, lines |-> <<>>]

\* write that appends the instruction and not its line.
write_NoLine(c, instr, line) == [c EXCEPT !.code = Append(@, instr)]

\* Chunk::write
write(c, instr, line) ==
    [c EXCEPT !.code = Append(@, instr), !.lines = Append(@, line)]

\* Chunk::addConstant: the chunk with the constant, and its index.
addConstant(c, value) ==
    [chunk |-> [c EXCEPT !.constants = Append(@, value)],
     index |-> Len(c.constants)]

\* ------------------------------------------------------- VM: the helpers
\* m is the state of the VM and of its collector, with the two output sinks:
\* ip, stack, globals, callStack, running, objects, heap, nextGC, cout, cerr,
\* and `fate`: "ok", or how the instruction left execute otherwise ("threw":
\* an exception escapes execute; "crashed": the process is gone).
\* Vectors are sequences: element i of a vector is element i + 1 here
\* (but for globals, see GlobalAt).

\* VM::push
push(m, value) == [m EXCEPT !.stack = Append(@, value)]

\* VM::runtimeError: the diagnostic with the instruction pointer, running = false
runtimeError(m, message) ==
    [m EXCEPT !.cerr = Append(@, [message |-> message, at |-> m.ip]),
              !.running = FALSE]

\* pop that returns Nil on an empty stack without raising the error.
pop_NoError(m) ==
    IF m.stack = <<>>
    THEN [m |-> m, v |-> Value_Nil]
    ELSE [m |-> [m EXCEPT !.stack = SubSeq(@, 1, Len(@) - 1)],
          v |-> m.stack[Len(m.stack)]]

\* VM::pop: the state after the pop and the Value returned.
pop(m) ==
    IF m.stack = <<>>
    THEN [m |-> runtimeError(m, "Stack underflow"), v |-> Value_Nil]
    ELSE [m |-> [m EXCEPT !.stack = SubSeq(@, 1, Len(@) - 1)],
          v |-> m.stack[Len(m.stack)]]

\* peek that is one element off: stack[stack.size() - 2 - distance].
peek_OffByOne(m, distance) ==
    IF distance + 1 >= Len(m.stack) THEN Value_Nil
    ELSE m.stack[Len(m.stack) - 1 - distance]

\* VM::peek(distance)
peek(m, distance) ==
    IF distance >= Len(m.stack) THEN Value_Nil
    ELSE m.stack[Len(m.stack) - distance]

\* int64_t division and remainder of C++: the quotient is truncated toward
\* zero, the remainder has the sign of the dividend.
Abs(x) == IF x < 0 THEN 0 - x ELSE x

CDiv(a, b) ==
    LET q == Abs(a) \div Abs(b)
    IN  IF (a < 0) = (b < 0) THEN q ELSE 0 - q

CMod(a, b) == a - b * CDiv(a, b)

\* binaryOp that takes the first Value popped for the left operand.
binaryOp_Swapped(m, op) ==
    LET pa == pop(m)
        pb == pop(pa.m)
        a == pa.v
        b == pb.v
        m2 == pb.m
    IN  IF a.type = "INTEGER" /\ b.type = "INTEGER"
        THEN CASE op = "ADD" -> [m |-> m2, v |-> Value_Int(a.as + b.as)]
               [] op = "SUB" -> [m |-> m2, v |-> Value_Int(a.as - b.as)]
               [] op = "MUL" -> [m |-> m2, v |-> Value_Int(a.as * b.as)]
               [] op = "DIV" ->
                    IF b.as = 0
                    THEN [m |-> runtimeError(m2, "Division by zero"), v |-> Value_Nil]
                    ELSE [m |-> m2, v |-> Value_Int(CDiv(a.as, b.as))]
               [] op = "MOD" ->
                    IF b.as = 0
                    THEN [m |-> runtimeError(m2, "Modulo by zero"), v |-> Value_Nil]
                    ELSE [m |-> m2, v |-> Value_Int(CMod(a.as, b.as))]
               [] op = "LT" -> [m |-> m2, v |-> Value_Bool(a.as < b.as)]
               [] op = "LE" -> [m |-> m2, v |-> Value_Bool(a.as <= b.as)]
               [] op = "GT" -> [m |-> m2, v |-> Value_Bool(a.as > b.as)]
               [] op = "GE" -> [m |-> m2, v |-> Value_Bool(a.as >= b.as)]
               [] op = "EQ" -> [m |-> m2, v |-> Value_Bool(a.as = b.as)]
               [] op = "NE" -> [m |-> m2, v |-> Value_Bool(a.as # b.as)]
               [] OTHER -> [m |-> runtimeError(m2, "Invalid binary operation"),
                            v |-> Value_Nil]
        ELSE [m |-> runtimeError(m2, "Operands must be integers"), v |-> Value_Nil]

\* VM::binaryOp: the state after the two pops (and the error, if any) and the
\* Value returned.
binaryOp(m, op) ==
    LET pb == pop(m)
        pa == pop(pb.m)
        a == pa.v
        b == pb.v
        m2 == pa.m
    IN  IF a.type = "INTEGER" /\ b.type = "INTEGER"
        THEN CASE op = "ADD" -> [m |-> m2, v |-> Value_Int(a.as + b.as)]
               [] op = "SUB" -> [m |-> m2, v |-> Value_Int(a.as - b.as)]
               [] op = "MUL" -> [m |-> m2, v |-> Value_Int(a.as * b.as)]
               [] op = "DIV" ->
                    IF b.as = 0
                    THEN [m |-> runtimeError(m2, "Division by zero"), v |-> Value_Nil]
                    ELSE [m |-> m2, v |-> Value_Int(CDiv(a.as, b.as))]
               [] op = "MOD" ->
                    IF b.as = 0
                    THEN [m |-> runtimeError(m2, "Modulo by zero"), v |-> Value_Nil]
                    ELSE [m |-> m2, v |-> Value_Int(CMod(a.as, b.as))]
               [] op = "LT" -> [m |-> m2, v |-> Value_Bool(a.as < b.as)]
               [] op = "LE" -> [m |-> m2, v |-> Value_Bool(a.as <= b.as)]
               [] op = "GT" -> [m |-> m2, v |-> Value_Bool(a.as > b.as)]
               [] op = "GE" -> [m |-> m2, v |-> Value_Bool(a.as >= b.as)]
               [] op = "EQ" -> [m |-> m2, v |-> Value_Bool(a.as = b.as)]
               [] op = "NE" -> [m |-> m2, v |-> Value_Bool(a.as # b.as)]
               [] OTHER -> [m |-> runtimeError(m2, "Invalid binary operation"),
                            v |-> Value_Nil]
        ELSE [m |-> runtimeError(m2, "Operands must be integers"), v |-> Value_Nil]

\* Reading through an object pointer that is null or dangling is undefined:
\* the process dies on the access, or the read yields something that fails
\* the test made on it and the instruction goes on as `otherwise`.
Undefined(m, otherwise) == {[m EXCEPT !.fate = "crashed"], otherwise}

\* arr.type == OBJECT && arr.as.object->type == ARRAY, where it can be read
IsArray(m, arr) == arr.type = "OBJECT" /\ m.heap[arr.as].type = "ARRAY"

\* The pointer of an OBJECT Value cannot be read through.
BadPointer(m, v) == v.type = "OBJECT" /\ ~Live(m.heap, v.as)

\* size_t(int32_t): a negative operand becomes a size_t of at least
\* 2^64 - 2^31.  The model's integers are narrower than 64 bits, so 2^64 is
\* written HugeSize: a value above the length of every vector of the model.
HugeSize == 2 ^ 30

size_t(i) == IF i < 0 THEN HugeSize + i ELSE i

\* VM::globals is a vector of GlobalsSize Values, all Nil when the VM is
\* constructed, and never resized.  It is written as the function from the
\* slots that hold another Value than Nil to that Value.
GlobalAt(globals, slot) ==
    IF slot \in DOMAIN globals THEN globals[slot] ELSE Value_Nil

GlobalPut(globals, slot, value) ==
    IF value = Value_Nil
    THEN [i \in DOMAIN globals \ {slot} |-> globals[i]]
    ELSE [i \in DOMAIN globals \cup {slot} |-> IF i = slot THEN value ELSE globals[i]]

\* ------------------------------------- VM::execute: the switch, case by case
\* Each case maps the state after `ip++` and the instruction to the set of
\* states the case can end in (one state, unless the behaviour is undefined).

\* PUSH that reports a constant index out of range.
Op_PUSH_ReportsBadIndex(m, instr) ==
    IF instr.operand >= 0 /\ instr.operand < Len(m.chunk.constants)
    THEN {push(m, m.chunk.constants[instr.operand + 1])}
    ELSE {runtimeError(m, "Invalid constant index")}

Op_PUSH(m, instr) ==
    IF instr.operand >= 0 /\ instr.operand < Len(m.chunk.constants)
    THEN {push(m, m.chunk.constants[instr.operand + 1])}
    ELSE {m}

Op_POP(m, instr) == {pop(m).m}

\* DUP that pops the Value and pushes it twice.
Op_DUP_ViaPop(m, instr) ==
    LET p == pop(m)
    IN  {push(push(p.m, p.v), p.v)}

Op_DUP(m, instr) == {push(m, peek(m, 0))}

Op_SWAP(m, instr) ==
    LET pb == pop(m)
        pa == pop(pb.m)
    IN  {push(push(pa.m, pb.v), pa.v)}

\* EQ and NE that compare Values of any types.
Op_Binary_ComparesAnyTypes(m, instr) ==
    LET pb == pop(m)
        pa == pop(pb.m)
        r == binaryOp(m, instr.opcode)
    IN  IF instr.opcode \in {"EQ", "NE"}
        THEN {push(pa.m, Value_Bool((pa.v = pb.v) = (instr.opcode = "EQ")))}
        ELSE {push(r.m, r.v)}

\* ADD .. NE: push(binaryOp(instr.opcode))
Op_Binary(m, instr) ==
    LET r == binaryOp(m, instr.opcode)
    IN  {push(r.m, r.v)}

Op_NEG(m, instr) ==
    LET p == pop(m)
    IN  IF p.v.type = "INTEGER"
        THEN {push(p.m, Value_Int(0 - p.v.as))}
        ELSE {runtimeError(p.m, "Operand must be integer")}

Op_NOT(m, instr) ==
    LET p == pop(m)
    IN  {push(p.m, Value_Bool(~isTruthy(p.v)))}

Op_AND(m, instr) ==
    LET pb == pop(m)
        pa == pop(pb.m)
    IN  {push(pa.m, Value_Bool(isTruthy(pa.v) /\ isTruthy(pb.v)))}

Op_OR(m, instr) ==
    LET pb == pop(m)
        pa == pop(pb.m)
    IN  {push(pa.m, Value_Bool(isTruthy(pa.v) \/ isTruthy(pb.v)))}

\* LOAD_GLOBAL that pushes Nil for a slot out of range.
Op_LOAD_GLOBAL_NilOutOfRange(m, instr) ==
    IF instr.operand >= 0 /\ instr.operand < GlobalsSize
    THEN {push(m, GlobalAt(m.globals, instr.operand))}
    ELSE {push(m, Value_Nil)}

Op_LOAD_GLOBAL(m, instr) ==
    IF instr.operand >= 0 /\ instr.operand < GlobalsSize
    THEN {push(m, GlobalAt(m.globals, instr.operand))}
    ELSE {m}

\* STORE_GLOBAL that pops the Value it stores.
Op_STORE_GLOBAL_Pops(m, instr) ==
    IF instr.operand >= 0 /\ instr.operand < GlobalsSize
    THEN LET p == pop(m)
         IN  {[p.m EXCEPT !.globals = GlobalPut(@, instr.operand, p.v)]}
    ELSE {m}

Op_STORE_GLOBAL(m, instr) ==
    IF instr.operand >= 0 /\ instr.operand < GlobalsSize
    THEN {[m EXCEPT !.globals = GlobalPut(@, instr.operand, peek(m, 0))]}
    ELSE {m}

\* JMP that lands on the instruction before its target.
Op_JMP_OneBefore(m, instr) == {[m EXCEPT !.ip = size_t(instr.operand - 1)]}

Op_JMP(m, instr) == {[m EXCEPT !.ip = size_t(instr.operand)]}

\* JMP_IF_FALSE that jumps on a truthy top of stack.
Op_JMP_IF_FALSE_Inverted(m, instr) ==
    IF isTruthy(peek(m, 0))
    THEN {[m EXCEPT !.ip = size_t(instr.operand)]}
    ELSE {m}

Op_JMP_IF_FALSE(m, instr) ==
    IF ~isTruthy(peek(m, 0))
    THEN {[m EXCEPT !.ip = size_t(instr.operand)]}
    ELSE {m}

Op_JMP_IF_TRUE(m, instr) ==
    IF isTruthy(peek(m, 0))
    THEN {[m EXCEPT !.ip = size_t(instr.operand)]}
    ELSE {m}

Op_CALL(m, instr) ==
    {[m EXCEPT !.callStack = Append(@, m.ip), !.ip = size_t(instr.operand)]}

\* RET that takes the oldest return address.
Op_RET_Fifo(m, instr) ==
    IF m.callStack # <<>>
    THEN {[m EXCEPT !.ip = m.callStack[1],
                    !.callStack = Tail(@)]}
    ELSE {[m EXCEPT !.running = FALSE]}

Op_RET(m, instr) ==
    IF m.callStack # <<>>
    THEN {[m EXCEPT !.ip = m.callStack[Len(m.callStack)],
                    !.callStack = SubSeq(@, 1, Len(@) - 1)]}
    ELSE {[m EXCEPT !.running = FALSE]}

\* NEW_ARRAY that collects between the allocation and the push.
Op_NEW_ARRAY_CollectsBeforePush(m, instr) ==
    IF instr.operand < 0
    THEN {[m EXCEPT !.fate = "threw"]}
    ELSE IF FreeIds(m) = {} THEN {}
    ELSE LET arr == NewId(m)
             m2 == allocate(m, arr, instr.operand)
         IN  {push(collect(m2, m2.stack, m2.globals), Value_Obj(arr))}

\* A negative operand is a size above vector::max_size(): the constructor of
\* the vector throws, nothing is registered, and execute has no handler.
\* No state follows when the allocator has no identity left (MaxObjects).
Op_NEW_ARRAY(m, instr) ==
    IF instr.operand < 0
    THEN {[m EXCEPT !.fate = "threw"]}
    ELSE IF FreeIds(m) = {} THEN {}
    ELSE LET arr == NewId(m)
         IN  {push(allocate(m, arr, instr.operand), Value_Obj(arr))}

Op_ARRAY_GET(m, instr) ==
    LET pi == pop(m)
        pa == pop(pi.m)
        idx == pi.v
        arr == pa.v
        m2 == pa.m
    IN  IF BadPointer(m2, arr)
        THEN Undefined(m2, runtimeError(m2, "Invalid array access"))
        ELSE IF IsArray(m2, arr) /\ idx.type = "INTEGER"
        THEN LET elements == m2.heap[arr.as].elements
             IN  IF idx.as >= 0 /\ idx.as < Len(elements)
                 THEN {push(m2, Value_Int(elements[idx.as + 1]))}
                 ELSE {runtimeError(m2, "Array index out of bounds")}
        ELSE {runtimeError(m2, "Invalid array access")}

\* ARRAY_SET that counts the index from the end of the array.
Op_ARRAY_SET_FromEnd(m, instr) ==
    LET pv == pop(m)
        pi == pop(pv.m)
        pa == pop(pi.m)
        val == pv.v
        idx == pi.v
        arr == pa.v
        m2 == pa.m
    IN  IF BadPointer(m2, arr)
        THEN Undefined(m2, runtimeError(m2, "Invalid array assignment"))
        ELSE IF IsArray(m2, arr) /\ idx.type = "INTEGER" /\ val.type = "INTEGER"
        THEN LET elements == m2.heap[arr.as].elements
             IN  IF idx.as >= 0 /\ idx.as < Len(elements)
                 THEN {[m2 EXCEPT !.heap[arr.as].elements[Len(elements) - idx.as] = val.as]}
                 ELSE {runtimeError(m2, "Array index out of bounds")}
        ELSE {runtimeError(m2, "Invalid array assignment")}

Op_ARRAY_SET(m, instr) ==
    LET pv == pop(m)
        pi == pop(pv.m)
        pa == pop(pi.m)
        val == pv.v
        idx == pi.v
        arr == pa.v
        m2 == pa.m
    IN  IF BadPointer(m2, arr)
        THEN Undefined(m2, runtimeError(m2, "Invalid array assignment"))
        ELSE IF IsArray(m2, arr) /\ idx.type = "INTEGER" /\ val.type = "INTEGER"
        THEN LET elements == m2.heap[arr.as].elements
             IN  IF idx.as >= 0 /\ idx.as < Len(elements)
                 THEN {[m2 EXCEPT !.heap[arr.as].elements[idx.as + 1] = val.as]}
                 ELSE {runtimeError(m2, "Array index out of bounds")}
        ELSE {runtimeError(m2, "Invalid array assignment")}

Op_ARRAY_LEN(m, instr) ==
    LET p == pop(m)
        arr == p.v
        m2 == p.m
    IN  IF BadPointer(m2, arr)
        THEN Undefined(m2, runtimeError(m2, "Operand must be array"))
        ELSE IF IsArray(m2, arr)
        THEN {push(m2, Value_Int(Len(m2.heap[arr.as].elements)))}
        ELSE {runtimeError(m2, "Operand must be array")}

\* std::cout << pop().toString() << "\n": one line of output
Op_PRINT(m, instr) ==
    LET p == pop(m)
        v == p.v
        m2 == p.m
    IN  IF BadPointer(m2, v)
        THEN Undefined(m2, [m2 EXCEPT !.cout = Append(@, "[Array]")])
        ELSE {[m2 EXCEPT !.cout =
                  Append(@, toString(v, IF v.type = "OBJECT" THEN m2.heap[v.as]
                                        ELSE ArrayObject(0)))]}

Op_HALT(m, instr) == {[m EXCEPT !.running = FALSE]}

Op_NOP(m, instr) == {m}

\* default: LOAD, STORE and every value outside the enumeration
Op_default(m, instr) == {runtimeError(m, "Unknown opcode")}

BinaryOpCodes == {"ADD", "SUB", "MUL", "DIV", "MOD", "LT", "LE", "GT", "GE", "EQ", "NE"}

\* switch (instr.opcode)
Dispatch(m, instr) ==
    LET op == instr.opcode
    IN  CASE op = "PUSH" -> Op_PUSH(m, instr)
          [] op = "POP" -> Op_POP(m, instr)
          [] op = "DUP" -> Op_DUP(m, instr)
          [] op = "SWAP" -> Op_SWAP(m, instr)
          [] op \in BinaryOpCodes -> Op_Binary(m, instr)
          [] op = "NEG" -> Op_NEG(m, instr)
          [] op = "NOT" -> Op_NOT(m, instr)
          [] op = "AND" -> Op_AND(m, instr)
          [] op = "OR" -> Op_OR(m, instr)
          [] op = "LOAD_GLOBAL" -> Op_LOAD_GLOBAL(m, instr)
          [] op = "STORE_GLOBAL" -> Op_STORE_GLOBAL(m, instr)
          [] op = "JMP" -> Op_JMP(m, instr)
          [] op = "JMP_IF_FALSE" -> Op_JMP_IF_FALSE(m, instr)
          [] op = "JMP_IF_TRUE" -> Op_JMP_IF_TRUE(m, instr)
          [] op = "CALL" -> Op_CALL(m, instr)
          [] op = "RET" -> Op_RET(m, instr)
          [] op = "NEW_ARRAY" -> Op_NEW_ARRAY(m, instr)
          [] op = "ARRAY_GET" -> Op_ARRAY_GET(m, instr)
          [] op = "ARRAY_SET" -> Op_ARRAY_SET(m, instr)
          [] op = "ARRAY_LEN" -> Op_ARRAY_LEN(m, instr)
          [] op = "PRINT" -> Op_PRINT(m, instr)
          [] op = "HALT" -> Op_HALT(m, instr)
          [] op = "NOP" -> Op_NOP(m, instr)
          [] OTHER -> Op_default(m, instr)

\* ------------------------------------------------------------- Assembler
\* a is the state of an Assembler: the chunk it writes to, `labels`, the
\* `unresolvedJumps` (offset, label) in order, `currentLine`, and the
\* diagnostics it has written to std::cerr.

Assembler(c) ==
    [chunk |-> c, labels |-> <<>>, unresolvedJumps |-> <<>>, currentLine |-> 1,
     cerr |-> <<>>]

\* labels[name] = value, of an unordered_map
MapPut(map, name, value) ==
    [n \in DOMAIN map \cup {name} |-> IF n = name THEN value ELSE map[n]]

Asm_label(a, name) == [a EXCEPT !.labels = MapPut(@, name, Len(a.chunk.code))]

Asm_push(a, value) ==
    LET added == addConstant(a.chunk, Value_Int(value))
    IN  [a EXCEPT !.chunk = write(added.chunk, Instruction("PUSH", added.index),
                                  a.currentLine)]

Asm_op(a, opcode) ==
    [a EXCEPT !.chunk = write(@, Instruction(opcode, 0), a.currentLine)]

\* jump, jumpIfFalse, jumpIfTrue: they differ in the opcode only
Asm_jumpWith(a, opcode, label) ==
    [a EXCEPT !.unresolvedJumps = Append(@, <<Len(a.chunk.code), label>>),
              !.chunk = write(@, Instruction(opcode, 0), a.currentLine)]

Asm_jump(a, label) == Asm_jumpWith(a, "JMP", label)

Asm_jumpIfFalse(a, label) == Asm_jumpWith(a, "JMP_IF_FALSE", label)

Asm_jumpIfTrue(a, label) == Asm_jumpWith(a, "JMP_IF_TRUE", label)

Asm_loadGlobal(a, idx) ==
    [a EXCEPT !.chunk = write(@, Instruction("LOAD_GLOBAL", idx), a.currentLine)]

Asm_storeGlobal(a, idx) ==
    [a EXCEPT !.chunk = write(@, Instruction("STORE_GLOBAL", idx), a.currentLine)]

Asm_newArray(a, size) ==
    [a EXCEPT !.chunk = write(@, Instruction("NEW_ARRAY", size), a.currentLine)]

Asm_nextLine(a) == [a EXCEPT !.currentLine = @ + 1]

\* resolve that patches the first unresolved jump only.
resolveFrom_FirstOnly(a, i) ==
    IF a.unresolvedJumps = <<>> \/ a.unresolvedJumps[1][2] \notin DOMAIN a.labels
    THEN a
    ELSE [a EXCEPT !.chunk.code[a.unresolvedJumps[1][1] + 1].operand =
                       a.labels[a.unresolvedJumps[1][2]]]

\* The loop of resolve from unresolved jump i on.
RECURSIVE resolveFrom(_, _)
resolveFrom(a, i) ==
    IF i > Len(a.unresolvedJumps) THEN a
    ELSE LET offset == a.unresolvedJumps[i][1]
             labelName == a.unresolvedJumps[i][2]
         IN  IF labelName \in DOMAIN a.labels
             THEN resolveFrom([a EXCEPT !.chunk.code[offset + 1].operand =
                                            a.labels[labelName]], i + 1)
             ELSE resolveFrom([a EXCEPT !.cerr = Append(@, <<"Undefined label", labelName>>)],
                              i + 1)

Asm_resolve(a) == resolveFrom(a, 1)

\* One builder call, written <<name>> or <<name, argument>>.
Build(a, call) ==
    CASE call[1] = "label" -> Asm_label(a, call[2])
      [] call[1] = "push" -> Asm_push(a, call[2])
      [] call[1] = "op" -> Asm_op(a, call[2])
      [] call[1] = "jump" -> Asm_jump(a, call[2])
      [] call[1] = "jumpIfFalse" -> Asm_jumpIfFalse(a, call[2])
      [] call[1] = "jumpIfTrue" -> Asm_jumpIfTrue(a, call[2])
      [] call[1] = "loadGlobal" -> Asm_loadGlobal(a, call[2])
      [] call[1] = "storeGlobal" -> Asm_storeGlobal(a, call[2])
      [] call[1] = "newArray" -> Asm_newArray(a, call[2])
      [] call[1] = "nextLine" -> Asm_nextLine(a)
      [] call[1] = "resolve" -> Asm_resolve(a)

\* A sequence of builder calls, in order, on assembler a.
RECURSIVE BuildAll(_, _)
BuildAll(a, calls) ==
    IF calls = <<>> THEN a ELSE BuildAll(Build(a, Head(calls)), Tail(calls))

\* The chunk an Assembler on an empty chunk leaves after the calls.
Assemble(calls) == BuildAll(Assembler(EmptyChunk), calls).chunk

\* ------------------------------------------------------------- Programs
\* The chunks the host hands to execute.

\* A chunk built directly: <<"constant", value>> is chunk.addConstant(value),
\* <<"write", opcode, operand, line>> is chunk.write(Instruction(..), line).
RECURSIVE ChunkOf(_, _)
ChunkOf(c, steps) ==
    IF steps = <<>> THEN c
    ELSE LET step == Head(steps)
         IN  ChunkOf(IF step[1] = "constant" THEN addConstant(c, step[2]).chunk
                     ELSE write(c, Instruction(step[2], step[3]), step[4]),
                     Tail(steps))

\* (10 + 20) * 3 - 5
example1_arithmetic ==
    ChunkOf(EmptyChunk, <<
        <<"constant", Value_Int(10)>>, <<"write", "PUSH", 0, 1>>,
        <<"constant", Value_Int(20)>>, <<"write", "PUSH", 1, 1>>,
        <<"write", "ADD", 0, 1>>,
        <<"constant", Value_Int(3)>>, <<"write", "PUSH", 2, 2>>,
        <<"write", "MUL", 0, 2>>,
        <<"constant", Value_Int(5)>>, <<"write", "PUSH", 3, 3>>,
        <<"write", "SUB", 0, 3>>,
        <<"write", "PRINT", 0, 3>>,
        <<"write", "HALT", 0, 3>> >>)

\* if (10 > 5) print 1 else print 0
example2_conditionals ==
    ChunkOf(EmptyChunk, <<
        <<"constant", Value_Int(10)>>, <<"write", "PUSH", 0, 1>>,
        <<"constant", Value_Int(5)>>, <<"write", "PUSH", 1, 1>>,
        <<"write", "GT", 0, 1>>,
        <<"write", "JMP_IF_FALSE", 8, 1>>,
        <<"constant", Value_Int(1)>>, <<"write", "PUSH", 2, 2>>,
        <<"write", "PRINT", 0, 2>>,
        <<"write", "JMP", 10, 2>>,
        <<"constant", Value_Int(0)>>, <<"write", "PUSH", 3, 3>>,
        <<"write", "PRINT", 0, 3>>,
        <<"write", "HALT", 0, 4>> >>)

\* sum = 0; for i in 1..=10 { sum += i }; print(sum)
example3_loop ==
    ChunkOf(EmptyChunk, <<
        <<"constant", Value_Int(0)>>, <<"write", "PUSH", 0, 1>>,
        <<"write", "STORE_GLOBAL", 0, 1>>,
        <<"constant", Value_Int(1)>>, <<"write", "PUSH", 1, 2>>,
        <<"write", "STORE_GLOBAL", 1, 2>>,
        <<"write", "LOAD_GLOBAL", 1, 3>>,
        <<"constant", Value_Int(11)>>, <<"write", "PUSH", 2, 3>>,
        <<"write", "LT", 0, 3>>,
        <<"write", "JMP_IF_FALSE", 20, 3>>,
        <<"write", "LOAD_GLOBAL", 0, 4>>,
        <<"write", "LOAD_GLOBAL", 1, 4>>,
        <<"write", "ADD", 0, 4>>,
        <<"write", "STORE_GLOBAL", 0, 4>>,
        <<"write", "LOAD_GLOBAL", 1, 5>>,
        <<"constant", Value_Int(1)>>, <<"write", "PUSH", 3, 5>>,
        <<"write", "ADD", 0, 5>>,
        <<"write", "STORE_GLOBAL", 1, 5>>,
        <<"write", "JMP", 4, 6>>,
        <<"write", "LOAD_GLOBAL", 0, 7>>,
        <<"write", "PRINT", 0, 7>>,
        <<"write", "HALT", 0, 7>> >>)

\* arr = new array of 5; arr[2] = 42; print arr[2]; print length
example4_arrays ==
    ChunkOf(EmptyChunk, <<
        <<"write", "NEW_ARRAY", 5, 1>>,
        <<"write", "STORE_GLOBAL", 0, 1>>,
        <<"write", "LOAD_GLOBAL", 0, 2>>,
        <<"constant", Value_Int(2)>>, <<"write", "PUSH", 0, 2>>,
        <<"constant", Value_Int(42)>>, <<"write", "PUSH", 1, 2>>,
        <<"write", "ARRAY_SET", 0, 2>>,
        <<"write", "LOAD_GLOBAL", 0, 3>>,
        <<"constant", Value_Int(2)>>, <<"write", "PUSH", 0, 3>>,
        <<"write", "ARRAY_GET", 0, 3>>,
        <<"write", "PRINT", 0, 3>>,
        <<"write", "LOAD_GLOBAL", 0, 4>>,
        <<"write", "ARRAY_LEN", 0, 4>>,
        <<"write", "PRINT", 0, 4>>,
        <<"write", "HALT", 0, 5>> >>)

\* Create and discard many arrays to trigger GC, keeping the last in global 1.
example7_stress_test_gc ==
    Assemble(<<
        <<"push", 0>>, <<"storeGlobal", 0>>,
        <<"label", "loop">>,
        <<"loadGlobal", 0>>, <<"push", 20>>, <<"op", "LT">>,
        <<"jumpIfFalse", "done">>,
        <<"newArray", 100>>, <<"op", "POP">>,
        <<"newArray", 50>>, <<"storeGlobal", 1>>,
        <<"loadGlobal", 0>>, <<"push", 1>>, <<"op", "ADD">>, <<"storeGlobal", 0>>,
        <<"loadGlobal", 0>>, <<"op", "PRINT">>,
        <<"jump", "loop">>,
        <<"label", "done">>,
        <<"op", "HALT">>,
        <<"resolve">> >>)

ExamplePrograms ==
    {example1_arithmetic, example2_conditionals, example3_loop, example4_arrays,
     example7_stress_test_gc}

\* PUSH a; PUSH b; OP; PRINT
ArithProgram(a, b, op) ==
    ChunkOf(EmptyChunk, <<
        <<"constant", Value_Int(a)>>, <<"write", "PUSH", 0, 1>>,
        <<"constant", Value_Int(b)>>, <<"write", "PUSH", 1, 1>>,
        <<"write", op, 0, 1>>,
        <<"write", "PRINT", 0, 1>> >>)

ArithOps == {"ADD", "SUB", "MUL", "DIV", "MOD"}

ArithPrograms ==
    {ArithProgram(a, b, op) : a \in (0 - MaxInt)..MaxInt, b \in (0 - MaxInt)..MaxInt,
                              op \in ArithOps}

\* PUSH c; <jump> L; PUSH 10; PRINT; HALT; L: PUSH 20; PRINT; HALT
\* where <jump> is jumpIfFalse or jumpIfTrue, through the Assembler except
\* for the condition, which is any Value.
JumpProgram(c, jump) ==
    LET first == write(addConstant(EmptyChunk, c).chunk, Instruction("PUSH", 0), 1)
    IN  BuildAll(Assembler(first), <<
            <<jump, "L">>,
            <<"push", 10>>, <<"op", "PRINT">>, <<"op", "HALT">>,
            <<"label", "L">>,
            <<"push", 20>>, <<"op", "PRINT">>, <<"op", "HALT">>,
            <<"resolve">> >>).chunk

\* Values of every tag, truthy and falsy.
TestValues ==
    {Value_Nil, Value_Bool(TRUE), Value_Bool(FALSE), Value_Int(0), Value_Int(1),
     Value_Double(0), Value_Double(150), Value_Obj(nullptr)}

JumpPrograms ==
    {JumpProgram(c, jump) : c \in TestValues, jump \in {"jumpIfFalse", "jumpIfTrue"}}

\* Arrays allocated one after the other; array i is
\*   "drop":   popped at once                 NEW_ARRAY 1; POP
\*   "global": kept in a global slot only     NEW_ARRAY 2; STORE_GLOBAL 0; POP
\*   "stack":  kept on the stack only         NEW_ARRAY 1
\*   "both":   kept on the stack and in a slot NEW_ARRAY 2; STORE_GLOBAL 1
GCBlock(disposition) ==
    CASE disposition = "drop" -> << <<"newArray", 1>>, <<"op", "POP">> >>
      [] disposition = "global" ->
            << <<"newArray", 2>>, <<"storeGlobal", 0>>, <<"op", "POP">> >>
      [] disposition = "stack" -> << <<"newArray", 1>> >>
      [] disposition = "both" -> << <<"newArray", 2>>, <<"storeGlobal", 1>> >>

RECURSIVE GCCalls(_, _)
GCCalls(pattern, i) ==
    IF i > Len(pattern) THEN <<>>
    ELSE GCBlock(pattern[i]) \o GCCalls(pattern, i + 1)

\* The blocks of the pattern and two instructions that allocate nothing.
GCProgram(pattern) ==
    Assemble(GCCalls(pattern, 1) \o << <<"op", "NOP">>, <<"op", "NOP">> >>)

\* One array more than the collector's threshold, so that a collection runs.
GCBlocks == threshold + 1

\* The patterns that keep at most MaxKept of the arrays.
GCPatterns ==
    UNION {{[i \in 1..GCBlocks |-> IF i \in kept THEN how[i] ELSE "drop"] :
                how \in [kept -> {"global", "stack", "both"}]} :
           kept \in {k \in SUBSET (1..GCBlocks) : Cardinality(k) <= MaxKept}}

GCPrograms == {GCProgram(pattern) : pattern \in GCPatterns}

\* The patterns that keep none of the arrays, or the array of one block.
KeepOnePatterns ==
    {[i \in 1..GCBlocks |-> IF i = k THEN how ELSE "drop"] :
        k \in 0..GCBlocks, how \in {"global", "stack", "both"}}

KeepOnePrograms == {GCProgram(pattern) : pattern \in KeepOnePatterns}

\* A call inside a call: the subroutine at 2 calls the one at 4, a PUSH keeps
\* the operand stack non-empty meanwhile.
NestedCalls ==
    ChunkOf(EmptyChunk, <<
        <<"write", "CALL", 2, 1>>, <<"write", "HALT", 0, 1>>,
        <<"write", "CALL", 4, 2>>, <<"write", "RET", 0, 2>>,
        <<"constant", Value_Int(7)>>, <<"write", "PUSH", 0, 3>>,
        <<"write", "RET", 0, 3>> >>)

\* Calls and returns: a subroutine that prints, called twice; a call that
\* never returns; a return without a call; a call from the last instruction,
\* whose return address is the end of the chunk.
CallPrograms ==
    {Assemble(<< <<"push", 1>> >>) ,
     ChunkOf(EmptyChunk, <<
        <<"write", "CALL", 4, 1>>, <<"write", "CALL", 4, 1>>,
        <<"write", "HALT", 0, 1>>, <<"write", "NOP", 0, 1>>,
        <<"constant", Value_Int(7)>>, <<"write", "PUSH", 0, 2>>,
        <<"write", "PRINT", 0, 2>>, <<"write", "RET", 0, 2>> >>),
     ChunkOf(EmptyChunk, <<
        <<"write", "CALL", 2, 1>>, <<"write", "NOP", 0, 1>>,
        <<"write", "HALT", 0, 1>> >>),
     ChunkOf(EmptyChunk, <<
        <<"write", "NOP", 0, 1>>, <<"write", "RET", 0, 1>>,
        <<"write", "NOP", 0, 1>> >>),
     ChunkOf(EmptyChunk, <<
        <<"write", "JMP", 2, 1>>, <<"write", "RET", 0, 1>>,
        <<"write", "CALL", 1, 1>> >>),
     NestedCalls}

\* A probe: up to MaxSetup instructions that set the stack up, the probed
\* instruction, and then nothing or a NOP.
ProbeConstants ==
    <<Value_Nil, Value_Bool(TRUE), Value_Int(0), Value_Int(1), Value_Double(150),
      Value_Obj(nullptr)>>

SetupInstructions ==
    {Instruction("PUSH", k) : k \in 0..(Len(ProbeConstants) - 1)}
        \cup {Instruction("NEW_ARRAY", 2)}

\* A chunk that ends on the allocation that fills the registry up to the
\* threshold, the array before it being kept in global 0: the collection is
\* due when the next execute call starts.
gcDueAtExit ==
    Assemble(GCCalls(<<"drop", "drop", "drop", "drop", "drop", "drop", "global">>, 1)
                 \o << <<"newArray", 1>> >>)

\* PUSH v (or NEW_ARRAY 2); DUP; POP; POP
DupProgram(first) ==
    [code |-> <<first, Instruction("DUP", 0), Instruction("POP", 0),
                Instruction("POP", 0)>>,
     constants |-> ProbeConstants,
     lines |-> <<1, 1, 1, 1>>]

DupPrograms == {DupProgram(first) : first \in SetupInstructions}

\* The constants of the array programs: the Integers -1 .. 4, a Double, Nil
\* and a null object pointer.
ArrayConstants ==
    <<Value_Int(0 - 1), Value_Int(0), Value_Int(1), Value_Int(2), Value_Int(3),
      Value_Int(4), Value_Double(150), Value_Nil, Value_Obj(nullptr)>>

\* The PUSH of constant c of ArrayConstants.
PushOf(c) ==
    Instruction("PUSH", (CHOOSE k \in DOMAIN ArrayConstants : ArrayConstants[k] = c) - 1)

\* What an array program does between its ARRAY_SET and its ARRAY_GET:
\* nothing; a[1] = 4; b[i] = 4 on a second array b; or nine allocations that
\* are dropped, which make a collection due.
Between(what, i) ==
    CASE what = "nothing" -> <<>>
      [] what = "set" ->
            <<Instruction("LOAD_GLOBAL", 0), PushOf(Value_Int(1)),
              PushOf(Value_Int(4)), Instruction("ARRAY_SET", 0)>>
      [] what = "other" ->
            <<Instruction("NEW_ARRAY", 2), PushOf(Value_Int(i)),
              PushOf(Value_Int(4)), Instruction("ARRAY_SET", 0)>>
      [] what = "churn" ->
            [k \in 1..18 |-> IF k % 2 = 1 THEN Instruction("NEW_ARRAY", 1)
                             ELSE Instruction("POP", 0)]

\* example4_arrays with the array of `first` (NEW_ARRAY 2, or the PUSH of a
\* Value that is no array): a[i] = v; print a[j]; print the length of a.
ArrayProgram(first, i, v, what, j) ==
    LET code == <<first, Instruction("STORE_GLOBAL", 0),
                  Instruction("LOAD_GLOBAL", 0), PushOf(Value_Int(i)), PushOf(v),
                  Instruction("ARRAY_SET", 0)>>
                \o Between(what, i)
                \o <<Instruction("LOAD_GLOBAL", 0), PushOf(Value_Int(j)),
                     Instruction("ARRAY_GET", 0), Instruction("PRINT", 0),
                     Instruction("LOAD_GLOBAL", 0), Instruction("ARRAY_LEN", 0),
                     Instruction("PRINT", 0), Instruction("HALT", 0)>>
    IN  [code |-> code,
         constants |-> ArrayConstants,
         lines |-> [k \in DOMAIN code |-> 1]]

\* The array programs: a is NEW_ARRAY 2 or a Value that is no array, i and j
\* are -1 .. 2, v is an Integer or a Double.
ArrayPrograms ==
    {ArrayProgram(first, i, v, what, j) :
        first \in {Instruction("NEW_ARRAY", 2), PushOf(Value_Int(0)),
                   PushOf(Value_Nil), PushOf(Value_Obj(nullptr))},
        i \in (0 - 1)..2,
        v \in {Value_Int(3), Value_Double(150)},
        what \in {"nothing", "set", "other", "churn"},
        j \in (0 - 1)..2}

\* The constants of the truth programs: a falsy and a truthy Value of every
\* tag.
TruthConstants ==
    <<Value_Nil, Value_Bool(FALSE), Value_Bool(TRUE), Value_Int(0), Value_Int(3),
      Value_Double(0), Value_Double(150), Value_Obj(nullptr)>>

\* One or two operands (a constant or a new array each), then NOT, AND or OR,
\* then PRINT.
TruthPrograms ==
    LET operand == {Instruction("PUSH", k) : k \in 0..(Len(TruthConstants) - 1)}
                      \cup {Instruction("NEW_ARRAY", 1)}
    IN  {[code |-> operands \o <<Instruction(op, 0), Instruction("PRINT", 0)>>,
          constants |-> TruthConstants,
          lines |-> [k \in 1..(Len(operands) + 2) |-> 1]] :
            operands \in [1..1 -> operand] \cup [1..2 -> operand],
            op \in {"NOT", "AND", "OR"}}

\* The four opcodes that peek, each run on an empty operand stack: global 0
\* is set, the stack is emptied, and then STORE_GLOBAL 0, JMP_IF_TRUE,
\* JMP_IF_FALSE and DUP run; the PRINT shows what DUP has pushed.
EmptyStackPeeks ==
    ChunkOf(EmptyChunk, <<
        <<"constant", Value_Int(3)>>, <<"write", "PUSH", 0, 1>>,
        <<"write", "STORE_GLOBAL", 0, 1>>, <<"write", "POP", 0, 1>>,
        <<"write", "STORE_GLOBAL", 0, 2>>, <<"write", "JMP_IF_TRUE", 7, 2>>,
        <<"write", "JMP_IF_FALSE", 7, 2>>, <<"write", "HALT", 0, 2>>,
        <<"write", "DUP", 0, 3>>, <<"write", "PRINT", 0, 3>> >>)

Setups == UNION {[1..n -> SetupInstructions] : n \in 0..MaxSetup}

\* The operands a probed opcode is given; `after` is the index of the
\* instruction that follows the probe.
ProbeOperands(op, after) ==
    CASE op = "PUSH" -> {0 - 1, 0, Len(ProbeConstants)}
      [] op \in {"LOAD_GLOBAL", "STORE_GLOBAL"} ->
            {0 - 1, 0, GlobalsSize - 1, GlobalsSize}
      [] op \in {"JMP", "JMP_IF_FALSE", "JMP_IF_TRUE", "CALL"} -> {0 - 1, after, after + 1}
      [] op = "NEW_ARRAY" -> {0 - 1, 0, 2}
      [] OTHER -> {0}

\* "INVALID" is an opcode byte outside the enumeration.
ProbeOpCodes == OpCodes \cup {"INVALID"}

ProbeProgram(setup, op, operand, tail) ==
    [code |-> setup \o <<Instruction(op, operand)>> \o tail,
     constants |-> ProbeConstants,
     lines |-> [i \in 1..(Len(setup) + 1 + Len(tail)) |-> 1]]

ProbeTails == {<<>>, <<Instruction("NOP", 0)>>}

\* --------------------------------------------------------------- The VM

VARIABLES
    chunk,      \* VM::chunk, the Chunk pointed to
    ip,         \* VM::ip
    stack,      \* VM::stack
    globals,    \* VM::globals
    callStack,  \* VM::callStack
    running,    \* VM::running
    objects,    \* GarbageCollector::objects, the registry
    heap,       \* the objects allocated and not deleted
    nextGC,     \* GarbageCollector::nextGC
    cout,       \* the lines the PRINTs of the current execute call have written
                \* to std::cout
    cerr,       \* the diagnostics the current execute call has written to std::cerr
    instr,      \* the instruction fetched last by the current execute call
    pc,         \* where the host or execute stands
    result,     \* what the last execute call returned: "true" or "false"
                \* ("none" until it returns)
    runs,       \* the number of execute calls made
    debugMode,  \* VM::debugMode
    debugOut,   \* the debugging text the current execute call has written to
                \* std::cout, one entry per block, kept apart from the lines
                \* of the PRINTs
    asm,        \* the host's Assembler, with the Chunk it points to
    built       \* what the host has called on asm and its chunk so far

vmVars == <<chunk, ip, stack, globals, callStack, running, objects, heap, nextGC,
            cout, cerr, instr, pc, result, runs, debugMode, debugOut>>

vars == <<vmVars, asm, built>>

\* pc: "ready" - no execute call is in progress;
\*     "loop"  - execute is at the test of its while loop;
\*     "check" - printDebugInfo has returned, the collection check is next;
\*     "fetch" - gc.collect has just returned, the fetch is next;
\*     "threw" - an exception has left execute;
\*     "crashed" - the process has died.

NoInstruction == Instruction("none", 0)

\* The names the host gives to labels.
LabelNames == {"a", "b"}

\* built: `calls` - the number of calls made on the Assembler and the Chunk,
\*            resolve() not counted;
\*        `last` - the name of the last call;
\*        `recorded` - per label name, chunk->code.size() as it was at each
\*            label(name) call, in order;
\*        `raw` - Chunk::write or Chunk::addConstant was called directly.
NothingBuilt ==
    [calls |-> 0, last |-> "none", recorded |-> [n \in LabelNames |-> <<>>],
     raw |-> FALSE]

\* VM::VM and the member initialisers
Init ==
    /\ chunk = EmptyChunk
    /\ ip = 0
    /\ stack = <<>>
    /\ globals = <<>>
    /\ callStack = <<>>
    /\ running = TRUE
    /\ objects = <<>>
    /\ heap = <<>>
    /\ nextGC = InitialNextGC
    /\ cout = <<>>
    /\ cerr = <<>>
    /\ instr = NoInstruction
    /\ pc = "ready"
    /\ result = "none"
    /\ runs = 0
    /\ debugMode = FALSE
    /\ debugOut = <<>>
    /\ asm = Assembler(EmptyChunk)
    /\ built = NothingBuilt

\* The state of the VM as the helpers take it.
M ==
    [chunk |-> chunk, ip |-> ip, stack |-> stack, globals |-> globals,
     callStack |-> callStack, running |-> running, objects |-> objects,
     heap |-> heap, nextGC |-> nextGC, cout |-> cout, cerr |-> cerr,
     fate |-> "ok"]

Becomes(m) ==
    /\ chunk' = m.chunk
    /\ ip' = m.ip
    /\ stack' = m.stack
    /\ globals' = m.globals
    /\ callStack' = m.callStack
    /\ running' = m.running
    /\ objects' = m.objects
    /\ heap' = m.heap
    /\ nextGC' = m.nextGC
    /\ cout' = m.cout
    /\ cerr' = m.cerr

\* The host can call execute: no call is in progress (the last one returned
\* or threw), and the host has calls left.
CanExecute == pc \in {"ready", "threw"} /\ runs < MaxRuns

\* execute without stack.clear().
execute_KeepsStack(programChunk) ==
    /\ chunk' = programChunk
    /\ ip' = 0
    /\ running' = TRUE
    /\ cout' = <<>>
    /\ cerr' = <<>>
    /\ instr' = NoInstruction
    /\ result' = "none"
    /\ runs' = runs + 1
    /\ pc' = "loop"
    /\ debugOut' = IF debugMode THEN <<"start">> ELSE <<>>
    /\ UNCHANGED <<stack, globals, callStack, objects, heap, nextGC, debugMode>>
    /\ UNCHANGED <<asm, built>>

\* execute(programChunk), up to the loop
execute(programChunk) ==
    /\ chunk' = programChunk
    /\ ip' = 0
    /\ running' = TRUE
    /\ stack' = <<>>
    /\ cout' = <<>>
    /\ cerr' = <<>>
    /\ instr' = NoInstruction
    /\ result' = "none"
    /\ runs' = runs + 1
    /\ pc' = "loop"
    /\ debugOut' = IF debugMode THEN <<"start">> ELSE <<>>
    /\ UNCHANGED <<globals, callStack, objects, heap, nextGC, debugMode>>
    /\ UNCHANGED <<asm, built>>

\* The loop test without `running`.
LoopCondition_IgnoresRunning(m) == m.ip < Len(m.chunk.code)

\* while (running && ip < chunk->code.size())
LoopCondition(m) == m.running /\ m.ip < Len(m.chunk.code)

\* VM::printDebugInfo: val.toString() for every Value of the stack, which
\* reads through the pointer of an OBJECT Value; the outcomes it can have.
\* (chunk->disassembleInstruction(ip) reads code[ip] and lines[ip], which
\* exist: ip is below code.size(), and lines is as long as code.)
printDebugInfo(m) ==
    IF \E i \in DOMAIN m.stack : BadPointer(m, m.stack[i])
    THEN {"crashed", "ok"}
    ELSE {"ok"}

\* if (debugMode) printDebugInfo();
PrintDebugInfo ==
    /\ pc = "loop"
    /\ LoopCondition(M)
    /\ debugMode
    /\ \E fate \in printDebugInfo(M) :
          /\ pc' = IF fate = "ok" THEN "check" ELSE fate
          /\ debugOut' = IF fate = "ok" THEN Append(debugOut, "info") ELSE debugOut
    /\ UNCHANGED <<chunk, ip, stack, globals, callStack, running, objects, heap,
                   nextGC, cout, cerr, instr, result, runs, debugMode, asm, built>>

\* The collection check is next: the loop test has passed, and the debugging
\* text, if any is due, is written.
AtCheck == pc = "check" \/ (pc = "loop" /\ LoopCondition(M) /\ ~debugMode)

\* if (gc.shouldCollect()) gc.collect(stack, globals);
GCCheck ==
    /\ AtCheck
    /\ shouldCollect(M)
    /\ Becomes(collect(M, stack, globals))
    /\ pc' = "fetch"
    /\ debugOut' = IF debugMode THEN Append(debugOut, "gc") ELSE debugOut
    /\ UNCHANGED <<instr, result, runs, debugMode, asm, built>>

\* The rest of the loop body is next: no collection is due, or it is done.
AtFetch == pc = "fetch" \/ (AtCheck /\ ~shouldCollect(M))

\* The state the loop body leaves when its switch ends in m.
AfterDispatch(m) ==
    /\ Becomes(m)
    /\ pc' = IF m.fate = "ok" THEN "loop" ELSE m.fate

\* const Instruction& instr = chunk->code[ip]; ip++; switch (instr.opcode)
Step ==
    /\ AtFetch
    /\ instr' = chunk.code[ip + 1]
    /\ \E m \in Dispatch([M EXCEPT !.ip = ip + 1], chunk.code[ip + 1]) :
           AfterDispatch(m)
    /\ UNCHANGED <<result, runs, debugMode, debugOut, asm, built>>

\* A return value that takes only ip == chunk->code.size() for the end.
ReturnValue_ExactEnd(m) == m.running /\ m.ip = Len(m.chunk.code)

\* return running || ip >= chunk->code.size();
ReturnValue(m) == m.running \/ m.ip >= Len(m.chunk.code)

Return ==
    /\ pc = "loop"
    /\ ~LoopCondition(M)
    /\ result' = IF ReturnValue(M) THEN "true" ELSE "false"
    /\ pc' = "ready"
    /\ debugOut' = IF debugMode THEN Append(debugOut, "end") ELSE debugOut
    /\ UNCHANGED <<chunk, ip, stack, globals, callStack, running, objects, heap,
                   nextGC, cout, cerr, instr, runs, debugMode, asm, built>>

\* The chunks run on a VM that is used for several execute calls.
Programs ==
    ExamplePrograms \cup KeepOnePrograms \cup {gcDueAtExit} \cup CallPrograms

Execute ==
    /\ CanExecute
    /\ \E programChunk \in Programs : execute(programChunk)

Next == Execute \/ GCCheck \/ Step \/ Return

\* A VM on which the host runs up to MaxRuns of the Programs.
Spec == Init /\ [][Next]_vars

\* The chunks run on a new VM.
ProgramsOnce ==
    Programs \cup GCPrograms \cup JumpPrograms \cup ArithPrograms \cup DupPrograms
        \cup ArrayPrograms \cup TruthPrograms \cup {EmptyStackPeeks}

ExecuteOnce ==
    /\ CanExecute
    /\ runs = 0
    /\ \E programChunk \in ProgramsOnce : execute(programChunk)

\* The host runs a probe on a new VM.
ExecuteProbe ==
    /\ CanExecute
    /\ runs = 0
    /\ \E setup \in Setups, op \in ProbeOpCodes :
          \E operand \in ProbeOperands(op, Len(setup) + 1), tail \in ProbeTails :
             execute(ProbeProgram(setup, op, operand, tail))

NextOnce == ExecuteOnce \/ ExecuteProbe \/ GCCheck \/ Step \/ Return

\* A new VM on which the host runs one chunk: one of ProgramsOnce or a probe.
SpecOnce == Init /\ [][NextOnce]_vars

\* setDebugMode(enabled)
setDebugMode(enabled) ==
    /\ debugMode' = enabled
    /\ UNCHANGED <<chunk, ip, stack, globals, callStack, running, objects, heap,
                   nextGC, cout, cerr, instr, pc, result, runs, debugOut, asm, built>>

\* The host sets the debug mode of a new VM.
Call_setDebugMode ==
    /\ CanExecute
    /\ runs = 0
    /\ \E enabled \in BOOLEAN : setDebugMode(enabled)

NextDebug ==
    Call_setDebugMode \/ ExecuteOnce \/ ExecuteProbe \/ PrintDebugInfo \/ GCCheck
        \/ Step \/ Return

\* A new VM on which the host sets the debug mode or leaves it, and then runs
\* one chunk: one of ProgramsOnce or a probe.
SpecDebug == Init /\ [][NextDebug]_vars

\* ------------------------------------------------- The host's Assembler
\* The host builds a chunk through an Assembler, as example5_fibonacci,
\* example6_array_operations and example7_stress_test_gc do, calls resolve()
\* and runs the chunk on a new VM.

AsmOpCodes == {"HALT", "POP"}

RawInstructions == {Instruction("NOP", 0), Instruction("PUSH", 0)}

\* The host is building, and has calls left.
CanBuild == pc = "ready" /\ runs = 0 /\ built.calls < MaxCalls

\* The call `name` has left the Assembler as a.
Called(a, name, isRaw) ==
    /\ asm' = a
    /\ built' = [built EXCEPT !.calls = @ + 1, !.last = name, !.raw = @ \/ isRaw]
    /\ UNCHANGED vmVars

Call_label ==
    /\ CanBuild
    /\ \E name \in LabelNames :
          /\ asm' = Asm_label(asm, name)
          /\ built' = [built EXCEPT !.calls = @ + 1, !.last = "label",
                                    !.recorded[name] = Append(@, Len(asm.chunk.code))]
    /\ UNCHANGED vmVars

Call_push == CanBuild /\ \E value \in {1} : Called(Asm_push(asm, value), "push", FALSE)

Call_op == CanBuild /\ \E opcode \in AsmOpCodes : Called(Asm_op(asm, opcode), "op", FALSE)

Call_jump == CanBuild /\ \E label \in LabelNames : Called(Asm_jump(asm, label), "jump", FALSE)

Call_jumpIfFalse ==
    CanBuild /\ \E label \in LabelNames :
                   Called(Asm_jumpIfFalse(asm, label), "jumpIfFalse", FALSE)

Call_jumpIfTrue ==
    CanBuild /\ \E label \in LabelNames :
                   Called(Asm_jumpIfTrue(asm, label), "jumpIfTrue", FALSE)

Call_loadGlobal ==
    CanBuild /\ \E idx \in {0} : Called(Asm_loadGlobal(asm, idx), "loadGlobal", FALSE)

Call_storeGlobal ==
    CanBuild /\ \E idx \in {0} : Called(Asm_storeGlobal(asm, idx), "storeGlobal", FALSE)

Call_newArray ==
    CanBuild /\ \E size \in {1} : Called(Asm_newArray(asm, size), "newArray", FALSE)

Call_nextLine == CanBuild /\ Called(Asm_nextLine(asm), "nextLine", FALSE)

\* chunk.write(instr, line), on the Chunk itself
Call_write ==
    CanBuild /\ \E instruction \in RawInstructions :
                   Called([asm EXCEPT !.chunk = write(@, instruction, 1)], "write", TRUE)

\* chunk.addConstant(value), on the Chunk itself
Call_addConstant ==
    CanBuild /\ \E value \in {1} :
                   Called([asm EXCEPT !.chunk = addConstant(@, Value_Int(value)).chunk],
                          "addConstant", TRUE)

\* asm.resolve().  A resolve() right after a resolve() finds the chunk as the
\* first left it and only repeats the diagnostics: it is left out.
Call_resolve ==
    /\ pc = "ready"
    /\ runs = 0
    /\ built.last # "resolve"
    /\ asm' = Asm_resolve(asm)
    /\ built' = [built EXCEPT !.last = "resolve"]
    /\ UNCHANGED vmVars

\* asm.resolve(); VM vm; vm.execute(&chunk);
RunAssembled ==
    /\ pc = "ready"
    /\ runs = 0
    /\ built.last = "resolve"
    /\ execute(asm.chunk)

\* The loop body, as long as the stack of a chunk that loops for ever is
\* short of MaxStack.
StepAssembled == Len(stack) < MaxStack /\ Step

NextAsm ==
    \/ Call_label \/ Call_push \/ Call_op
    \/ Call_jump \/ Call_jumpIfFalse \/ Call_jumpIfTrue
    \/ Call_loadGlobal \/ Call_storeGlobal \/ Call_newArray \/ Call_nextLine
    \/ Call_write \/ Call_addConstant \/ Call_resolve
    \/ RunAssembled \/ GCCheck \/ StepAssembled \/ Return

\* The host builds a chunk with up to MaxCalls calls and runs it on a new VM.
SpecAsm == Init /\ [][NextAsm]_vars

\* ------------------------------------------------------ Chunks that loop
\* k arrays allocated and dropped, and then: "halt" - HALT; "spin" - a loop
\* that allocates nothing; "churn" - a loop that allocates an array and drops
\* it; "hoard" - a loop that allocates an array and keeps it on the stack,
\* all three for ever (or, "hoard", until the allocator has no address left).
LoopProgram(k, ending) ==
    Assemble(GCCalls([i \in 1..k |-> "drop"], 1)
                 \o << <<"label", "loop">> >>
                 \o (CASE ending = "halt" -> << <<"op", "HALT">> >>
                       [] ending = "spin" -> << <<"op", "NOP">>, <<"jump", "loop">> >>
                       [] ending = "churn" ->
                            << <<"newArray", 1>>, <<"op", "POP">>, <<"jump", "loop">> >>
                       [] ending = "hoard" ->
                            << <<"newArray", 1>>, <<"jump", "loop">> >>)
                 \o << <<"resolve">> >>)

LoopPrograms ==
    {LoopProgram(k, ending) : k \in 0..GCBlocks, ending \in {"halt", "spin", "churn", "hoard"}}

ExecuteLoop ==
    /\ CanExecute
    /\ runs = 0
    /\ \E programChunk \in LoopPrograms : execute(programChunk)

NextLive == ExecuteLoop \/ GCCheck \/ Step \/ Return

\* A new VM that runs one of the LoopPrograms, if the host calls execute:
\* execute, once called, goes on until it returns.
SpecLive ==
    /\ Init
    /\ [][NextLive]_vars
    /\ WF_vars(GCCheck)
    /\ WF_vars(Step)
    /\ WF_vars(Return)

\* Chunks in which every jump goes forward: the conditional programs, the
\* programs without a jump that allocate up to a collection, and a JMP,
\* JMP_IF_FALSE or JMP_IF_TRUE behind at most one instruction of setup that
\* goes to the next instruction, over one instruction, or far behind the end
\* of the chunk.
ForwardPrograms ==
    JumpPrograms \cup {example1_arithmetic, example2_conditionals}
        \cup KeepOnePrograms
        \cup {ProbeProgram(setup, op, Len(setup) + over,
                           <<Instruction("NOP", 0), Instruction("PRINT", 0)>>) :
                 setup \in {s \in Setups : Len(s) <= 1},
                 op \in {"JMP", "JMP_IF_FALSE", "JMP_IF_TRUE"},
                 over \in {1, 2, 5}}

ExecuteForward ==
    /\ CanExecute
    /\ runs = 0
    /\ \E programChunk \in ForwardPrograms : execute(programChunk)

NextForward == ExecuteForward \/ GCCheck \/ Step \/ Return

\* A new VM that runs one of the ForwardPrograms, if the host calls execute:
\* execute, once called, goes on until it returns.
SpecForward ==
    /\ Init
    /\ [][NextForward]_vars
    /\ WF_vars(GCCheck)
    /\ WF_vars(Step)
    /\ WF_vars(Return)

\* ---------------------------------------------------------------- Claims

Range(f) == {f[i] : i \in DOMAIN f}

\* The objects the roots point to: the non-null pointers of the OBJECT Values
\* on the operand stack and in the global table.
RootObjects == (Referenced(stack) \cup Referenced(globals)) \ {nullptr}

\* C1: in every reachable state, every OBJECT Value with a non-null pointer
\* that is on the operand stack or in the global table points to an object
\* that is in the collector's registry and has not been deleted.
C1_RootsAreRegistered ==
    \A o \in RootObjects : o \in Range(objects) /\ Live(heap, o)

\* A collection of a later execute call has just freed objects while the
\* stack and a global slot each hold a pointer.
C1_Witness ==
    /\ pc = "fetch"
    /\ runs >= 2
    /\ Len(objects) < threshold
    /\ Referenced(stack) \ {nullptr} # {}
    /\ Referenced(globals) \ {nullptr} # {}

\* C2: when collect has just returned, the registry holds exactly the objects
\* that an OBJECT Value of the stack or of the global table points to (and
\* these are the objects that have not been deleted); so if one array is
\* pointed to, the count is 1.
C2_RegistryIsRootsAfterCollect ==
    pc = "fetch" =>
        /\ Range(objects) = RootObjects
        /\ DOMAIN heap = RootObjects
        /\ Len(objects) = Cardinality(RootObjects)

\* A collection has left one object, which a global slot points to and the
\* stack does not.
C2_Witness ==
    /\ pc = "fetch"
    /\ Len(objects) = 1
    /\ Referenced(globals) = {objects[1]}
    /\ Referenced(stack) = {}

\* The execute call has returned.
Returned == pc = "ready" /\ result \in {"true", "false"}

\* The run was ended by HALT, or by RET on an empty return-address stack.
EndedByHalt ==
    /\ ~running
    /\ cerr = <<>>
    /\ instr.opcode \in {"HALT", "RET"}

\* C3: an execute call that ends by executing HALT, wherever the HALT is, or
\* by RET with an empty return-address stack, returns true.
C3_HaltReturnsTrue == (Returned /\ EndedByHalt) => result = "true"

\* A runtime error occurred in the execute call.
Errored == ~running /\ cerr # <<>>

\* C4: an execute call in which a runtime error occurs returns false,
\* wherever the failing instruction is in the chunk.
C4_ErrorReturnsFalse == (Returned /\ Errored) => result = "false"

\* C5: once an instruction has executed HALT, executed RET on an empty
\* return-address stack or raised a runtime error (running is false), the
\* only thing the execute call does is return: no instruction is fetched or
\* dispatched and nothing of the VM changes.
C5_StoppedIsTerminal ==
    [][(pc \in {"loop", "fetch"} /\ ~running) =>
          /\ pc' = "ready"
          /\ UNCHANGED <<chunk, ip, stack, globals, callStack, running, objects,
                         heap, nextGC, cout, cerr, instr>>]_vars

\* An execute call has returned after a runtime error, with instructions of
\* the chunk left after the failing one that it never fetched.
C5_Witness ==
    /\ Returned
    /\ ~running
    /\ ip < Len(chunk.code)
    /\ instr = chunk.code[ip]
    /\ instr.opcode # "HALT"
    /\ cerr # <<>>

\* The instruction the loop body fetches next.
NextInstruction == chunk.code[ip + 1]

\* The next instruction is DIV or MOD, on an Integer and the Integer 0.
DivisionByZeroIsNext ==
    /\ AtFetch
    /\ NextInstruction.opcode \in {"DIV", "MOD"}
    /\ Len(stack) >= 2
    /\ stack[Len(stack)] = Value_Int(0)
    /\ stack[Len(stack) - 1].type = "INTEGER"

\* C6: DIV or MOD of an Integer by the Integer 0 leaves the VM Errored and
\* produces no Value: the two operands are popped and nothing is pushed.
C6_DivisionByZeroPushesNothing ==
    [][DivisionByZeroIsNext =>
          /\ ~running'
          /\ cerr' # <<>>
          /\ stack' = SubSeq(stack, 1, Len(stack) - 2)]_vars

\* The number of Values an opcode pops.
Pops(op) ==
    CASE op \in {"POP", "NEG", "NOT", "ARRAY_LEN", "PRINT"} -> 1
      [] op \in {"SWAP", "AND", "OR", "ARRAY_GET"} \cup BinaryOpCodes -> 2
      [] op = "ARRAY_SET" -> 3
      [] OTHER -> 0

UnderflowReported == \E i \in DOMAIN cerr : cerr[i].message = "Stack underflow"

\* C7: an opcode that pops, executed with fewer Values on the stack than it
\* pops, raises the stack underflow error and leaves the VM Errored (running
\* is false, and the loop is back at its test, where by C5 it only returns).
C7_UnderflowIsErrored ==
    [][(AtFetch /\ Len(stack) < Pops(NextInstruction.opcode)) =>
          /\ pc' = "loop"
          /\ ~running'
          /\ UnderflowReported']_vars

\* ARRAY_SET has run with two of its three operands on the stack.
C7_Witness ==
    /\ pc = "loop"
    /\ instr.opcode = "ARRAY_SET"
    /\ ip = 3
    /\ ~running
    /\ UnderflowReported

\* The Value v of a DupProgram: the constant its PUSH pushes, or the array its
\* NEW_ARRAY allocates.
DupValue ==
    IF chunk.code[1].opcode = "PUSH"
    THEN chunk.constants[chunk.code[1].operand + 1]
    ELSE Value_Obj(objects[1])

\* C8: from the one-element stack [v], DUP and two POPs raise no error; the
\* stack is [v, v] after the DUP, so that both pops remove a Value equal to v,
\* it is [v] again after the first POP and empty after the second.
C8_DupPopPop ==
    (chunk \in DupPrograms /\ pc \in {"loop", "ready"} /\ ip >= 1) =>
        /\ cerr = <<>>
        /\ stack = CASE ip = 1 -> <<DupValue>>
                     [] ip = 2 -> <<DupValue, DupValue>>
                     [] ip = 3 -> <<DupValue>>
                     [] ip = 4 -> <<>>

\* DUP, POP, POP have run on a stack that held one array reference.
C8_Witness ==
    /\ chunk \in DupPrograms
    /\ chunk.code[1].opcode = "NEW_ARRAY"
    /\ Returned
    /\ ip = 4
    /\ stack = <<>>
    /\ cerr = <<>>

\* The Values of TestValues that are falsy: Nil, false, the Integer 0, the
\* Double 0.0 and the null reference.
FalsyTestValues ==
    {Value_Nil, Value_Bool(FALSE), Value_Int(0), Value_Double(0), Value_Obj(nullptr)}

\* What a JumpProgram has printed when it has returned: 10 if the jump was
\* not to be taken, 20 if it was.
JumpProgramPrints ==
    (Returned /\ chunk \in JumpPrograms) =>
        LET c == chunk.constants[1]
            jumps == IF chunk.code[2].opcode = "JMP_IF_FALSE"
                     THEN c \in FalsyTestValues
                     ELSE c \notin FalsyTestValues
        IN  cout = IF jumps THEN <<"20">> ELSE <<"10">>

\* A conditional jump on a non-empty stack sets ip to its operand if the top
\* of stack is falsy (JMP_IF_FALSE) or truthy (JMP_IF_TRUE), and else leaves
\* ip at the next instruction.
ConditionalJumpSetsIp ==
    (/\ AtFetch
     /\ NextInstruction.opcode \in {"JMP_IF_FALSE", "JMP_IF_TRUE"}
     /\ stack # <<>>) =>
        LET jumps == IF NextInstruction.opcode = "JMP_IF_FALSE"
                     THEN ~isTruthy(stack[Len(stack)])
                     ELSE isTruthy(stack[Len(stack)])
        IN  ip' = IF jumps THEN size_t(NextInstruction.operand) ELSE ip + 1

\* C9: PUSH c; JMP_IF_FALSE L; PUSH 10; PRINT; HALT; L: PUSH 20; PRINT; HALT
\* prints exactly 10 when c is truthy (1) and exactly 20 when c is falsy (0);
\* JMP_IF_FALSE sets ip to its operand iff the top of stack is falsy and
\* JMP_IF_TRUE iff it is truthy.
C9_ConditionalJumps == [](JumpProgramPrints) /\ [][ConditionalJumpSetsIp]_vars

\* The JMP_IF_FALSE program has run with c = 0 and printed 20.
C9_Witness ==
    /\ Returned
    /\ chunk = JumpProgram(Value_Int(0), "jumpIfFalse")
    /\ cout = <<"20">>

\* The host's a / b: the integer q with a = q * b + r, |r| < |b|, r zero or
\* of the sign of a.
HostQuotient(a, b) ==
    CHOOSE q \in (0 - Abs(a))..Abs(a) :
        LET r == a - q * b
        IN  Abs(r) < Abs(b) /\ (r = 0 \/ (r < 0) = (a < 0))

HostResult(a, b, op) ==
    CASE op = "ADD" -> a + b
      [] op = "SUB" -> a - b
      [] op = "MUL" -> a * b
      [] op = "DIV" -> HostQuotient(a, b)
      [] op = "MOD" -> a - HostQuotient(a, b) * b

\* C10: for integers a and b, b # 0, PUSH a; PUSH b; OP; PRINT prints exactly
\* the host's a OP b for OP in ADD, SUB, MUL, DIV, MOD: the Value pushed first
\* is the left operand, DIV truncates toward zero (-3 / 2 is -1) and MOD has
\* the sign of the dividend (-3 % 2 is -1, 3 % -2 is 1).
C10_ArithmeticPrintsHostResult ==
    (/\ Returned
     /\ Len(chunk.code) = 4
     /\ Len(chunk.constants) = 2
     /\ chunk.code[3].opcode \in ArithOps
     /\ \A i \in 1..2 : /\ chunk.constants[i].type = "INTEGER"
                        /\ chunk.constants[i].as \in (0 - MaxInt)..MaxInt
     /\ chunk = ArithProgram(chunk.constants[1].as, chunk.constants[2].as,
                             chunk.code[3].opcode)
     /\ chunk.constants[2].as # 0) =>
        LET a == chunk.constants[1].as
            b == chunk.constants[2].as
            op == chunk.code[3].opcode
        IN  /\ cout = <<to_string(HostResult(a, b, op))>>
            /\ cerr = <<>>
            /\ (a = 0 - 3 /\ b = 2 /\ op = "DIV") => cout = <<"-1">>
            /\ (a = 0 - 3 /\ b = 2 /\ op = "MOD") => cout = <<"-1">>
            /\ (a = 3 /\ b = 0 - 2 /\ op = "MOD") => cout = <<"1">>
            /\ (a = 3 /\ b = 4 /\ op = "SUB") => cout = <<"-1">>
            /\ (a = 3 /\ b = 4 /\ op = "MUL") => cout = <<"12">>

\* -3 % 2 has been computed and printed.
C10_Witness ==
    /\ Returned
    /\ chunk = ArithProgram(0 - 3, 2, "MOD")
    /\ cout = <<"-1">>

\* C11: the chunk of example3_loop (sum = 0; for i in 1..=10 { sum += i };
\* print(sum)), run on a new VM, has printed exactly 55 when execute returns,
\* and it ended on its HALT without a runtime error.
C11_LoopPrints55 ==
    (Returned /\ chunk = example3_loop) =>
        /\ cout = <<"55">>
        /\ cerr = <<>>
        /\ ~running
        /\ instr.opcode = "HALT"

\* The step is a resolve() call of the host.
IsResolve == built.last # "resolve" /\ built'.last = "resolve"

\* The unresolved jumps of the Assembler whose label has been defined.
DefinedJumps == {i \in DOMAIN asm.unresolvedJumps :
                    built.recorded[asm.unresolvedJumps[i][2]] # <<>>}

\* C12: after resolve(), the operand of every jump emitted through jump,
\* jumpIfFalse or jumpIfTrue whose label is defined, before or after the jump,
\* is the instruction count recorded when label(name) was called (one of the
\* counts recorded, and the only one for a name defined once); resolve()
\* changes no opcode, and no operand of an instruction that is not such a jump.
C12_ResolvePatchesJumps ==
    [][IsResolve =>
          LET before == asm.chunk.code
              after == asm'.chunk.code
              offsets == {asm.unresolvedJumps[i][1] + 1 : i \in DefinedJumps}
          IN  /\ Len(after) = Len(before)
              /\ \A k \in DOMAIN before : after[k].opcode = before[k].opcode
              /\ \A k \in DOMAIN before \ offsets : after[k] = before[k]
              /\ \A i \in DefinedJumps :
                    LET counts == built.recorded[asm.unresolvedJumps[i][2]]
                        operand == after[asm.unresolvedJumps[i][1] + 1].operand
                    IN  /\ operand \in Range(counts)
                        /\ Len(counts) = 1 => operand = counts[1]]_vars

\* resolve() has patched a jump to a label defined, two instructions on,
\* after the jump was emitted.
C12_Witness ==
    /\ built.last = "resolve"
    /\ asm.unresolvedJumps = << <<0, "a">> >>
    /\ built.recorded["a"] = <<2>>
    /\ Len(asm.chunk.code) = 2
    /\ asm.chunk.code[1] = Instruction("JMP", 2)

\* C13: a chunk with a jump whose label is never defined is not handed to
\* execute: resolve() makes the build fail.
C13_UndefinedLabelFailsBuild ==
    runs > 0 =>
        \A i \in DOMAIN asm.unresolvedJumps :
            built.recorded[asm.unresolvedJumps[i][2]] # <<>>

\* C14: each label name that has been defined maps to the address recorded
\* by its first definition: a second label(name) does not overwrite it.
C14_FirstDefinitionStays ==
    \A name \in LabelNames :
        built.recorded[name] # <<>> =>
            /\ name \in DOMAIN asm.labels
            /\ asm.labels[name] = built.recorded[name][1]

\* The jump opcodes the Assembler emits.
AsmJumpOpCodes == {"JMP", "JMP_IF_FALSE", "JMP_IF_TRUE"}

\* C15: after Assembler builder calls followed by resolve(), every referenced
\* label being defined, the instruction and line sequences have equal length,
\* every PUSH operand is a constant-pool index and every jump operand is an
\* instruction index, 0 <= operand < number of instructions.
C15_AssembledChunkIsWellFormed ==
    (/\ built.last = "resolve"
     /\ ~built.raw
     /\ DefinedJumps = DOMAIN asm.unresolvedJumps) =>
        LET c == asm.chunk
        IN  /\ Len(c.code) = Len(c.lines)
            /\ \A k \in DOMAIN c.code :
                  /\ c.code[k].opcode = "PUSH" =>
                        c.code[k].operand \in 0..(Len(c.constants) - 1)
                  /\ c.code[k].opcode \in AsmJumpOpCodes =>
                        c.code[k].operand \in 0..(Len(c.code) - 1)

\* C19: after any sequence of Chunk::write, Chunk::addConstant, Assembler
\* builder calls and resolve(), the instruction sequence and the line
\* sequence of the chunk have the same length (and so have those of the chunk
\* the VM runs).
C19_CodeAndLinesInLockStep ==
    /\ Len(asm.chunk.code) = Len(asm.chunk.lines)
    /\ Len(chunk.code) = Len(chunk.lines)

\* The chunk has been written to directly and through the Assembler, with a
\* jump, and resolved.
C19_Witness ==
    /\ built.raw
    /\ built.last = "resolve"
    /\ built.calls = MaxCalls
    /\ asm.unresolvedJumps # <<>>
    /\ Len(asm.chunk.code) = 2
    /\ Len(asm.chunk.lines) = 2
    /\ asm.chunk.constants # <<>>

\* C16: execute ends by returning only: no exception leaves it and the
\* process does not die in it, whatever the chunk, a NEW_ARRAY with a
\* negative size included.
C16_ExecuteOnlyReturns == pc \notin {"threw", "crashed"}

\* Object o is registered and not referenced from the stack or the globals.
Garbage(o) == o \in Range(objects) /\ o \notin RootObjects

\* execute is not in progress: it has not been called, it has returned, or
\* it was left by an exception or the death of the process.
NotExecuting == pc \notin {"loop", "check", "fetch"}

\* C17: every registered object that is unreachable from the stack and the
\* globals is eventually removed from the registry by a collection, unless
\* the VM stops executing instructions: no garbage is retained for ever
\* while execute goes on.
C17_GarbageIsEventuallyCollected ==
    \A o \in 1..MaxObjects : Garbage(o) ~> (o \notin Range(objects) \/ NotExecuting)

\* C18: as soon as ip is at or past the end of the instruction sequence, by
\* falling off the last instruction or by a JMP, JMP_IF_*, CALL or RET that
\* set it outside [0, number of instructions), the run ends: the next step
\* is the return of execute, it returns true, no instruction is fetched and
\* no runtime error is raised.
C18_EndOfCodeIsImplicitHalt ==
    [][(pc = "loop" /\ ip >= Len(chunk.code)) =>
          /\ pc' = "ready"
          /\ result' = "true"
          /\ UNCHANGED <<ip, stack, instr, cout, cerr, running>>]_vars

\* execute has returned true after a jump or a call to an address past the
\* end of the chunk.
C18_Witness ==
    /\ Returned
    /\ result = "true"
    /\ running
    /\ cerr = <<>>
    /\ instr.opcode \in {"JMP", "JMP_IF_FALSE", "JMP_IF_TRUE", "CALL"}
    /\ ip = size_t(instr.operand)
    /\ ip > Len(chunk.code)

\* The step is a collection made by the loop of execute.
IsCollect == pc \in {"loop", "check"} /\ pc' = "fetch"

\* The greater of two numbers.
Max(a, b) == IF a < b THEN b ELSE a

\* C20 as stated: the threshold in force after a collection is twice the
\* threshold in force before it.
C20_ThresholdDoubles == [][IsCollect => nextGC' = 2 * nextGC]_vars

\* After a collection the threshold is twice the number of objects the
\* collection left registered, and the floor if that is less.
NextGCIsTwiceTheSurvivors ==
    pc = "fetch" => nextGC = Max(threshold, 2 * Len(objects))

\* At the top of the loop body a collection is made exactly when the number
\* of registered objects has reached the threshold.
CollectsAtThreshold ==
    (pc = "loop" /\ running /\ ip < Len(chunk.code)) =>
        (IsCollect <=> Len(objects) >= nextGC)

\* C20, amended: the threshold in force after a collection is twice the
\* number of objects that survived it, and never below the floor of 8 (it
\* is twice the threshold before only if every object survived);
\* shouldCollect() is true exactly when the number of registered objects has
\* reached the current threshold.
C20_ThresholdIsTwiceTheSurvivors ==
    /\ [](NextGCIsTwiceTheSurvivors /\ nextGC >= threshold)
    /\ [][CollectsAtThreshold]_vars

\* A collection at threshold 16 has left 16 objects and threshold 32.
C20_Witness == pc = "fetch" /\ Len(objects) = 16 /\ nextGC = 32

\* A step deletes an object, takes one off the registry or sets nextGC.
CollectorActs ==
    \/ DOMAIN heap \ DOMAIN heap' # {}
    \/ Range(objects) \ Range(objects') # {}
    \/ nextGC' # nextGC

\* The loop body is about to run NEW_ARRAY with a size the vector accepts.
NewArrayIsNext ==
    /\ AtFetch
    /\ NextInstruction.opcode = "NEW_ARRAY"
    /\ NextInstruction.operand >= 0

\* C21: the collector acts only in the step of the check at the top of the
\* loop, before the fetch; that step is taken only when the registry has
\* reached nextGC, it leaves the instruction, the operand stack and the
\* globals as they are, and it keeps every object the whole operand stack or
\* the whole global table refers to.  The step of NEW_ARRAY registers the new
\* array and pushes its reference at once, with no collection in between: the
\* array is live and registered when its reference is on the stack.
C21_CollectionOnlyAtTheCheck ==
    [][/\ CollectorActs => IsCollect
       /\ IsCollect =>
             /\ Len(objects) >= nextGC
             /\ <<instr, ip, stack, globals>>' = <<instr, ip, stack, globals>>
             /\ \A o \in RootObjects \cap DOMAIN heap :
                   o \in DOMAIN heap' /\ o \in Range(objects')
       /\ NewArrayIsNext =>
             \E arr \in DOMAIN heap' \ DOMAIN heap :
                /\ ~CollectorActs
                /\ stack' = Append(stack, Value_Obj(arr))
                /\ objects' = Append(objects, arr)]_vars

\* A collection has freed an array while another is kept by the operand stack
\* and a third by a global.
C21_Witness ==
    /\ pc = "fetch"
    /\ Len(objects) < threshold
    /\ Referenced(stack) \cap DOMAIN heap # {}
    /\ Referenced(globals) \cap DOMAIN heap # {}
    /\ Referenced(stack) # Referenced(globals)

\* C22: when an execute call starts, the return-address stack is empty; so a
\* RET run before any CALL of the current execute call (here: in a chunk that
\* holds no CALL) halts: running becomes false and ip stays behind the RET,
\* instead of going to an address a previous execute call left.
C22_CallStackEmptyAtStart ==
    [][/\ (pc \in {"ready", "threw"} /\ pc' = "loop") => callStack' = <<>>
       /\ (AtFetch /\ NextInstruction.opcode = "RET"
              /\ \A i \in DOMAIN chunk.code : chunk.code[i].opcode # "CALL")
            => (~running' /\ ip' = ip + 1)]_vars

\* C23: the step that starts an execute call leaves the operand stack empty
\* and ip at 0, whatever the stack and ip were before it.
C23_ExecuteStartsClean ==
    [][(pc \in {"ready", "threw"} /\ pc' = "loop") => (stack' = <<>> /\ ip' = 0)]_vars

\* The second execute call starts on an empty stack at ip 0, while the array
\* that the first call ended with on its stack is still registered.
C23_Witness ==
    /\ runs = 2
    /\ pc = "loop"
    /\ instr = NoInstruction
    /\ stack = <<>>
    /\ ip = 0
    /\ objects # <<>>
    /\ objects[Len(objects)] \notin RootObjects

\* C24: an instruction whose opcode is one of the enumeration's never raises
\* "Unknown opcode": only an opcode outside the enumeration does.
C24_OnlyUndefinedOpcodesAreUnknown ==
    [][(AtFetch /\ NextInstruction.opcode \in OpCodes) =>
          \A i \in DOMAIN cerr' : cerr'[i].message # "Unknown opcode"]_vars

\* C25: CALL t at index i appends i + 1 to the return-address stack and sets
\* ip to t (as a size_t); RET on a non-empty return-address stack removes its
\* last address and sets ip to it; RET on an empty one clears running and
\* reports no error.  None of them changes the operand stack or the globals.
C25_CallAndRet ==
    [][/\ (AtFetch /\ NextInstruction.opcode = "CALL") =>
             /\ callStack' = Append(callStack, ip + 1)
             /\ ip' = size_t(NextInstruction.operand)
             /\ running'
       /\ (AtFetch /\ NextInstruction.opcode = "RET" /\ callStack # <<>>) =>
             /\ ip' = callStack[Len(callStack)]
             /\ callStack' = SubSeq(callStack, 1, Len(callStack) - 1)
             /\ running'
       /\ (AtFetch /\ NextInstruction.opcode = "RET" /\ callStack = <<>>) =>
             /\ ~running'
             /\ callStack' = <<>>
             /\ ip' = ip + 1
       /\ (AtFetch /\ NextInstruction.opcode \in {"CALL", "RET"}) =>
             /\ stack' = stack
             /\ globals' = globals
             /\ cerr' = cerr
             /\ pc' = "loop"]_vars

\* The inner RET of NestedCalls has returned behind the inner CALL, and the
\* address behind the outer CALL is still on the return-address stack.
C25_Witness ==
    /\ chunk = NestedCalls
    /\ pc = "loop"
    /\ instr.opcode = "RET"
    /\ ip = 3
    /\ callStack = <<1>>
    /\ stack = <<Value_Int(7)>>

\* C26: STORE_GLOBAL, JMP_IF_FALSE and JMP_IF_TRUE leave the operand stack
\* exactly as it was; STORE_GLOBAL idx with idx in [0, GlobalsSize), on a
\* non-empty stack, makes slot idx equal to the top of stack and leaves every
\* other slot as it was.
C26_PeekingOpcodesKeepTheStack ==
    [][/\ (AtFetch /\ NextInstruction.opcode \in
                          {"STORE_GLOBAL", "JMP_IF_FALSE", "JMP_IF_TRUE"}) =>
             stack' = stack
       /\ (AtFetch /\ NextInstruction.opcode = "STORE_GLOBAL"
              /\ NextInstruction.operand \in 0..(GlobalsSize - 1)
              /\ stack # <<>>) =>
             \A slot \in 0..(GlobalsSize - 1) :
                GlobalAt(globals', slot) =
                    IF slot = NextInstruction.operand
                    THEN stack[Len(stack)]
                    ELSE GlobalAt(globals, slot)]_vars

\* STORE_GLOBAL 1 has overwritten slot 1 with the top of stack, slot 0
\* holding another Value.
C26_Witness ==
    /\ pc = "loop"
    /\ instr = Instruction("STORE_GLOBAL", 1)
    /\ stack # <<>>
    /\ GlobalAt(globals, 1) = stack[Len(stack)]
    /\ GlobalAt(globals, 1) = Value_Int(2)
    /\ GlobalAt(globals, 0) \notin {Value_Nil, Value_Int(2)}

\* The Value that ARRAY_GET or ARRAY_SET, being next on a stack that holds
\* all its operands, takes for its array (arr) and for its index (idx).
ArrayOperand ==
    stack[Len(stack) - Pops(NextInstruction.opcode) + 1]

IndexOperand ==
    stack[Len(stack) - Pops(NextInstruction.opcode) + 2]

ArrayAccessIsNext ==
    /\ AtFetch
    /\ NextInstruction.opcode \in {"ARRAY_GET", "ARRAY_SET"}
    /\ Len(stack) >= Pops(NextInstruction.opcode)

\* v refers to an array.
IsArrayReference(v) ==
    v.type = "OBJECT" /\ v.as \in DOMAIN heap /\ heap[v.as].type = "ARRAY"

\* The access that is next is out of bounds, or is made on no array.
BadArrayAccess ==
    \/ ~IsArrayReference(ArrayOperand)
    \/ /\ IndexOperand.type = "INTEGER"
       /\ IndexOperand.as \notin 0..(Len(heap[ArrayOperand.as].elements) - 1)

\* C27: ARRAY_GET and ARRAY_SET with an Integer index outside [0, length) of
\* their array, or on a Value that is no reference to an array, leave the VM
\* Errored (the loop is back at its test, running is false and an error is
\* reported); no element of any array has changed, and the operands are
\* popped with nothing pushed.
C27_BadArrayAccessIsErrored ==
    [][(ArrayAccessIsNext /\ BadArrayAccess) =>
          /\ pc' = "loop"
          /\ Errored'
          /\ heap' = heap
          /\ stack' = SubSeq(stack, 1, Len(stack) - Pops(NextInstruction.opcode))]_vars

\* What a[j] is after a[i] = v and the instructions of Between(what, i), for
\* a new array a: the last Integer stored at j, and 0 if none was.
LastStored(i, v, what, j) ==
    IF what = "set" /\ j = 1 THEN 4
    ELSE IF j = i THEN v.as
    ELSE 0

\* An array program that has run to its HALT with no error has printed a[j]
\* as LastStored gives it, and then the size its NEW_ARRAY was given.
ArrayProgramPrints ==
    (Returned /\ cerr = <<>> /\ chunk.constants = ArrayConstants) =>
       \A i, j \in (0 - 1)..2, what \in {"nothing", "set", "other", "churn"} :
          chunk = ArrayProgram(Instruction("NEW_ARRAY", 2), i, Value_Int(3), what, j)
             => cout = <<to_string(LastStored(i, Value_Int(3), what, j)), "2">>

\* The next instruction is an ARRAY_SET that succeeds.
ArraySetSucceeds ==
    /\ AtFetch
    /\ NextInstruction.opcode = "ARRAY_SET"
    /\ Len(stack) >= 3
    /\ IsArrayReference(stack[Len(stack) - 2])
    /\ stack[Len(stack) - 1].type = "INTEGER"
    /\ stack[Len(stack)].type = "INTEGER"
    /\ stack[Len(stack) - 1].as \in
           0..(Len(heap[stack[Len(stack) - 2].as].elements) - 1)

\* What a step does to the arrays: an element of an array that stays changes
\* only in a successful ARRAY_SET of that array at that index, to the Integer
\* stored; a new array has the size given to NEW_ARRAY and 0 at every index;
\* ARRAY_GET on an array at an index within it pushes the element as it is,
\* and ARRAY_LEN pushes the number of elements.
ArraysAreStores ==
    /\ \A a \in DOMAIN heap \cap DOMAIN heap' :
          /\ Len(heap'[a].elements) = Len(heap[a].elements)
          /\ \A k \in DOMAIN heap[a].elements :
                heap'[a].elements[k] # heap[a].elements[k] =>
                   /\ ArraySetSucceeds
                   /\ stack[Len(stack) - 2] = Value_Obj(a)
                   /\ stack[Len(stack) - 1] = Value_Int(k - 1)
    /\ ArraySetSucceeds =>
          /\ heap'[stack[Len(stack) - 2].as].elements[stack[Len(stack) - 1].as + 1]
                = stack[Len(stack)].as
          /\ pc' = "loop" /\ running' /\ cerr' = cerr
          /\ stack' = SubSeq(stack, 1, Len(stack) - 3)
    /\ \A a \in DOMAIN heap' \ DOMAIN heap :
          /\ NewArrayIsNext
          /\ heap'[a].elements = [k \in 1..NextInstruction.operand |-> 0]
    /\ (/\ AtFetch
        /\ NextInstruction.opcode = "ARRAY_GET"
        /\ Len(stack) >= 2
        /\ IsArrayReference(stack[Len(stack) - 1])
        /\ stack[Len(stack)].type = "INTEGER"
        /\ stack[Len(stack)].as \in
               0..(Len(heap[stack[Len(stack) - 1].as].elements) - 1))
          => /\ stack' = Append(SubSeq(stack, 1, Len(stack) - 2),
                   Value_Int(heap[stack[Len(stack) - 1].as]
                                 .elements[stack[Len(stack)].as + 1]))
             /\ heap' = heap
    /\ (/\ AtFetch
        /\ NextInstruction.opcode = "ARRAY_LEN"
        /\ stack # <<>>
        /\ IsArrayReference(stack[Len(stack)]))
          => /\ stack' = Append(SubSeq(stack, 1, Len(stack) - 1),
                   Value_Int(Len(heap[stack[Len(stack)].as].elements)))
             /\ heap' = heap

\* C28: after a successful ARRAY_SET of the Integer v at index i of an array,
\* every ARRAY_GET of index i on that array gives v until the next successful
\* ARRAY_SET at that index, whatever runs in between (stores at other indexes
\* or into other arrays, allocations, collections); a new array reads 0 at
\* every index, and ARRAY_LEN gives the size that NEW_ARRAY was given.
C28_ArraysAreStores == [](ArrayProgramPrints) /\ [][ArraysAreStores]_vars

\* The array program a[1] = 3; nine allocations dropped; print a[1] has
\* printed 3 and 2 after a collection.
C28_Witness ==
    /\ chunk = ArrayProgram(Instruction("NEW_ARRAY", 2), 1, Value_Int(3), "churn", 1)
    /\ Returned
    /\ cout = <<"3", "2">>
    /\ Len(objects) < threshold

\* The next instruction is a binary opcode on two operands of which one at
\* least is no Integer, or NEG on an operand that is no Integer.
NonIntegerOperandIsNext ==
    /\ AtFetch
    /\ Len(stack) >= Pops(NextInstruction.opcode)
    /\ \/ /\ NextInstruction.opcode \in BinaryOpCodes
          /\ \/ stack[Len(stack)].type # "INTEGER"
             \/ stack[Len(stack) - 1].type # "INTEGER"
       \/ /\ NextInstruction.opcode = "NEG"
          /\ stack[Len(stack)].type # "INTEGER"

\* C29: ADD, SUB, MUL, DIV, MOD, EQ, NE, LT, LE, GT and GE with an operand
\* that is no Integer, and NEG with one, leave the VM Errored (the loop is
\* back at its test, running is false, an error is reported); the operands
\* are popped and no Integer, Double or Boolean takes their place: no result
\* of a promotion or of a comparison across types.
C29_NonIntegerOperandIsErrored ==
    [][NonIntegerOperandIsNext =>
          /\ pc' = "loop"
          /\ Errored'
          /\ \A k \in DOMAIN stack' :
                k > Len(stack) - Pops(NextInstruction.opcode) =>
                   stack'[k].type \notin {"INTEGER", "DOUBLE", "BOOLEAN"}
          /\ SubSeq(stack', 1, Len(stack) - Pops(NextInstruction.opcode))
                = SubSeq(stack, 1, Len(stack) - Pops(NextInstruction.opcode))]_vars

\* EQ has run on an Integer and a Double and has left the VM Errored.
C29_Witness ==
    /\ pc = "loop"
    /\ instr.opcode = "EQ"
    /\ Len(chunk.code) >= 3
    /\ chunk.code[1] = Instruction("PUSH", 3)
    /\ chunk.code[2] = Instruction("PUSH", 4)
    /\ ip = 3
    /\ Errored
    /\ cerr[1].message = "Operands must be integers"

\* C30: PUSH with an operand outside [0, chunk->constants.size()) changes
\* neither the operand stack, nor the globals, nor the return-address stack,
\* reports no error, and execution goes on with the next instruction.
C30_PushOutOfRangeIsIgnored ==
    [][(/\ AtFetch
        /\ NextInstruction.opcode = "PUSH"
        /\ NextInstruction.operand \notin 0..(Len(chunk.constants) - 1)) =>
          /\ <<stack, globals, callStack, cerr>>' = <<stack, globals, callStack, cerr>>
          /\ running'
          /\ ip' = ip + 1
          /\ pc' = "loop"]_vars

\* PUSH with the size of the constant pool as its operand has run on a stack
\* of two Values, and the NOP behind it has run after it.
C30_Witness ==
    /\ pc = "loop"
    /\ Len(chunk.code) = 4
    /\ chunk.code[3] = Instruction("PUSH", Len(chunk.constants))
    /\ instr.opcode = "NOP"
    /\ ip = 4
    /\ Len(stack) = 2
    /\ running
    /\ cerr = <<>>

\* C31: the step of a collection leaves the operand stack, the globals, ip
\* and the return-address stack as they were (and the chunk, running and the
\* output with them); the objects that survive are objects that were there,
\* each with the kind, the length and the elements it had.
C31_CollectChangesOnlyTheRegistry ==
    [][IsCollect =>
          /\ <<stack, globals, ip, callStack>>' = <<stack, globals, ip, callStack>>
          /\ <<chunk, running, cout, cerr>>' = <<chunk, running, cout, cerr>>
          /\ DOMAIN heap' \subseteq DOMAIN heap
          /\ Range(objects') \subseteq Range(objects)
          /\ \A o \in DOMAIN heap' :
                /\ heap'[o].type = heap[o].type
                /\ heap'[o].elements = heap[o].elements]_vars

\* A collection has just kept the array that holds the 3 stored in it, and
\* freed others.
C31_Witness ==
    /\ pc = "fetch"
    /\ Len(objects) < threshold
    /\ \E o \in Range(objects) : heap[o].elements = <<0, 3>>

\* C32: between the calls of collect, the marked flag of every registered
\* object is false: on a new object, and on every object that a collection
\* has kept, be it referenced once or several times from the roots.
C32_NoObjectStaysMarked ==
    \A i \in DOMAIN objects : ~heap[objects[i]].marked

\* A collection has just kept an array that both the operand stack and a
\* global refer to.
C32_Witness ==
    /\ pc = "fetch"
    /\ Len(objects) < threshold
    /\ Referenced(stack) \cap Referenced(globals) \cap Range(objects) # {}

\* Truthiness by tag: Nil is falsy, a Boolean is its value, an Integer or a
\* Double is truthy iff it is not zero, an object reference iff it is not
\* null.
TruthyByTag(v) ==
    CASE v.type = "NIL" -> FALSE
      [] v.type = "BOOLEAN" -> v = Value_Bool(TRUE)
      [] v.type \in {"INTEGER", "DOUBLE"} -> v.as # 0
      [] v.type = "OBJECT" -> v.as # nullptr

\* C33: NOT replaces the top of stack by the Boolean that negates its
\* truthiness; AND and OR replace the two Values on top by the Boolean that is
\* the conjunction and the disjunction of their truthiness; whatever the tags
\* of the operands, and with no error.
C33_LogicalOpcodesPushBooleans ==
    [][/\ (AtFetch /\ NextInstruction.opcode = "NOT" /\ Len(stack) >= 1) =>
             stack' = Append(SubSeq(stack, 1, Len(stack) - 1),
                             Value_Bool(~TruthyByTag(stack[Len(stack)])))
       /\ (AtFetch /\ NextInstruction.opcode = "AND" /\ Len(stack) >= 2) =>
             stack' = Append(SubSeq(stack, 1, Len(stack) - 2),
                             Value_Bool(TruthyByTag(stack[Len(stack) - 1])
                                            /\ TruthyByTag(stack[Len(stack)])))
       /\ (AtFetch /\ NextInstruction.opcode = "OR" /\ Len(stack) >= 2) =>
             stack' = Append(SubSeq(stack, 1, Len(stack) - 2),
                             Value_Bool(TruthyByTag(stack[Len(stack) - 1])
                                            \/ TruthyByTag(stack[Len(stack)])))
       /\ (AtFetch /\ NextInstruction.opcode \in {"NOT", "AND", "OR"}
              /\ Len(stack) >= Pops(NextInstruction.opcode)) =>
             (pc' = "loop" /\ running' /\ cerr' = cerr)]_vars

\* OR of the Double 0 and a null object reference has printed false.
C33_Witness ==
    /\ Returned
    /\ chunk.constants = TruthConstants
    /\ chunk.code = <<Instruction("PUSH", 5), Instruction("PUSH", 7),
                      Instruction("OR", 0), Instruction("PRINT", 0)>>
    /\ cout = <<"false">>
    /\ cerr = <<>>

\* C35: SWAP, a binary arithmetic or comparison opcode, AND, OR or NOT run on
\* fewer Values than it pops leaves the operand stack no deeper than it was,
\* and PRINT on an empty stack writes nothing.
C35_UnderflowPushesNothing ==
    [][/\ (/\ AtFetch
           /\ NextInstruction.opcode \in {"SWAP", "AND", "OR", "NOT"} \cup BinaryOpCodes
           /\ Len(stack) < Pops(NextInstruction.opcode)) =>
             Len(stack') <= Len(stack)
       /\ (AtFetch /\ NextInstruction.opcode = "PRINT" /\ stack = <<>>) =>
             cout' = cout]_vars

\* C36: on an empty operand stack DUP pushes Nil, STORE_GLOBAL with a slot in
\* [0, GlobalsSize) makes that slot Nil and leaves the others, JMP_IF_FALSE
\* sets ip to its operand and JMP_IF_TRUE leaves ip at the next instruction;
\* none of the four reports an error or clears running.
C36_PeekOnEmptyStackIsNil ==
    [][(/\ AtFetch
        /\ stack = <<>>
        /\ NextInstruction.opcode \in
               {"DUP", "STORE_GLOBAL", "JMP_IF_FALSE", "JMP_IF_TRUE"}) =>
          /\ pc' = "loop"
          /\ running'
          /\ cerr' = cerr
          /\ stack' = IF NextInstruction.opcode = "DUP" THEN <<Value_Nil>> ELSE <<>>
          /\ ip' = IF NextInstruction.opcode = "JMP_IF_FALSE"
                   THEN size_t(NextInstruction.operand)
                   ELSE ip + 1
          /\ \A slot \in 0..(GlobalsSize - 1) :
                GlobalAt(globals', slot) =
                    IF NextInstruction.opcode = "STORE_GLOBAL"
                          /\ slot = NextInstruction.operand
                    THEN Value_Nil
                    ELSE GlobalAt(globals, slot)]_vars

\* EmptyStackPeeks has run to its end: global 0, which held 3, is Nil again,
\* the HALT was jumped over by JMP_IF_FALSE alone, and the PRINT has shown the
\* Nil that DUP pushed.
C36_Witness ==
    /\ chunk = EmptyStackPeeks
    /\ Returned
    /\ result = "true"
    /\ ip = 9
    /\ cout = <<"nil">>
    /\ cerr = <<>>
    /\ GlobalAt(globals, 0) = Value_Nil

\* C37: nextGC is at least 8 in every state and the registry never holds more
\* than nextGC objects; a collection leaves the registry below nextGC, so
\* that shouldCollect() is false until an allocation has been made.
C37_RegistryStaysWithinNextGC ==
    /\ [](nextGC >= 8 /\ Len(objects) <= nextGC)
    /\ [][IsCollect => Len(objects') < nextGC']_vars
    /\ [][(Len(objects) < nextGC /\ Len(objects') >= nextGC') =>
             (NewArrayIsNext /\ nextGC' = nextGC)]_vars

\* A collection has kept fewer than four objects, and nextGC is at the floor
\* of 8, not at twice their number.
C37_Witness ==
    /\ pc = "fetch"
    /\ Len(objects) * 2 < 8
    /\ nextGC = 8

\* C39: LOAD_GLOBAL and STORE_GLOBAL with a slot outside [0, 256) change
\* neither the operand stack nor any slot, report no error, and execution
\* goes on with the next instruction; on a new VM, LOAD_GLOBAL of a slot
\* within range that the chunk never stores to pushes Nil.
C39_GlobalSlotOutOfRangeIsIgnored ==
    [][/\ (/\ AtFetch
           /\ NextInstruction.opcode \in {"LOAD_GLOBAL", "STORE_GLOBAL"}
           /\ NextInstruction.operand \notin 0..255) =>
             /\ <<stack, globals, callStack, cerr>>' = <<stack, globals, callStack, cerr>>
             /\ running'
             /\ ip' = ip + 1
             /\ pc' = "loop"
       /\ (/\ AtFetch
           /\ runs = 1
           /\ NextInstruction.opcode = "LOAD_GLOBAL"
           /\ NextInstruction.operand \in 0..255
           /\ \A i \in DOMAIN chunk.code :
                 chunk.code[i] # Instruction("STORE_GLOBAL", NextInstruction.operand)) =>
             stack' = Append(stack, Value_Nil)]_vars

\* LOAD_GLOBAL 256 has run on a stack of two Values, and the NOP behind it has
\* run after it.
C39_Witness ==
    /\ pc = "loop"
    /\ Len(chunk.code) = 4
    /\ chunk.code[3] = Instruction("LOAD_GLOBAL", 256)
    /\ instr.opcode = "NOP"
    /\ ip = 4
    /\ Len(stack) = 2
    /\ running
    /\ cerr = <<>>

\* The chunk holds no CALL and no RET, and the operand of each of its jumps
\* is greater than the index of the jump.
ForwardOnly ==
    \A i \in DOMAIN chunk.code :
       /\ chunk.code[i].opcode \notin {"CALL", "RET"}
       /\ chunk.code[i].opcode \in {"JMP", "JMP_IF_FALSE", "JMP_IF_TRUE"} =>
             chunk.code[i].operand > i - 1

\* C38: execute on a chunk with no CALL, no RET and forward jumps only comes
\* to its end, and dispatches no more instructions than the chunk holds: the
\* instruction it dispatches is at an index within the chunk, and each
\* dispatch leaves ip above the index dispatched, so that no index is
\* dispatched twice.
C38_ForwardChunksTerminate ==
    /\ (pc \in {"loop", "fetch"} /\ ForwardOnly) ~> NotExecuting
    /\ [][(AtFetch /\ ForwardOnly) => (ip < Len(chunk.code) /\ ip' > ip)]_vars

\* A forward chunk has run to its end: its JMP_IF_FALSE, on a falsy Value,
\* has jumped over the two instructions behind it and out of the chunk.
C38_Witness ==
    /\ Returned
    /\ ForwardOnly
    /\ instr.opcode = "JMP_IF_FALSE"
    /\ Len(chunk.code) = 4
    /\ ip = 6
    /\ cout = <<>>

\* ---------------------------------------------------------------------------
\* Debug mode
\* ---------------------------------------------------------------------------

\* execute is at the top of its loop: at the test, or past it with the
\* debugging text written.
AtLoopTop == pc \in {"loop", "check"}

\* A step that writes debugging text and nothing else: the chunk, the
\* instruction pointer, the operand stack, the globals, the return-address
\* stack, the registry, the PRINT lines, the errors and the return value stay
\* as they are, and execute goes on.
WritesDebugTextOnly ==
    /\ pc = "loop"
    /\ pc' = "check"
    /\ UNCHANGED <<chunk, ip, stack, globals, callStack, running, objects, heap,
                   nextGC, cout, cerr, instr, result, runs>>

\* A step that execute with debug mode off takes from the same VM state: the
\* collection of the check, the dispatch of one instruction, or the return.
StepWithDebugOff ==
    \/ /\ AtLoopTop
       /\ LoopCondition(M)
       /\ shouldCollect(M)
       /\ Becomes(collect(M, stack, globals))
       /\ pc' = "fetch"
       /\ result' = result
    \/ /\ pc = "fetch" \/ (AtLoopTop /\ LoopCondition(M) /\ ~shouldCollect(M))
       /\ \E m \in Dispatch([M EXCEPT !.ip = ip + 1], chunk.code[ip + 1]) :
             /\ Becomes(m)
             /\ pc' = IF m.fate = "ok" THEN "loop" ELSE m.fate
       /\ result' = result
    \/ /\ pc = "loop"
       /\ ~LoopCondition(M)
       /\ pc' = "ready"
       /\ result' = IF ReturnValue(M) THEN "true" ELSE "false"
       /\ Becomes(M)

\* C34: debug mode has no effect on semantics.  While execute runs with debug
\* mode on, every step either writes debugging text only, or is a step that
\* execute with debug mode off takes from the same instruction pointer, stack,
\* globals, return-address stack and registry, with the same PRINT lines and
\* the same return value.
C34_DebugModeHasNoEffect ==
    [][(debugMode /\ pc \in {"loop", "check", "fetch"})
          => (WritesDebugTextOnly \/ StepWithDebugOff)]_vars

====
